---- MODULE Spec2Model ----
(***************************************************************************)
(* Model of the commentary tooling of the BibleStudy repository:           *)
(*   - the segment locator and the insight validator of                    *)
(*     Scripts/commentary/generate_commentary.py,                          *)
(*   - the cross-reference diversification selector and the generation     *)
(*     retry loop of Scripts/commentary/generate_crossref_insights.py,     *)
(*   - the post-hoc segment check of Scripts/commentary/validate_insights.py*)
(*                                                                         *)
(* Texts are sequences of one-character strings, so that Python's str      *)
(* operations (find, lower, strip, split, join, slicing) are computed      *)
(* character by character.                                                 *)
(***************************************************************************)
EXTENDS Integers, Sequences, FiniteSets, TLC

VARIABLES
    \* ---- generate_chapter (generate_commentary.py) ----
    verses,          \* the chapter's verses: sequence of [verse, text]
    dry_run,         \* the --dry-run flag
    pc,              \* position in generate_chapter
    vi,              \* index of the verse being processed (1-based)
    n_insights,      \* len(result["insights"]) for the current verse
    ii,              \* index of the insight being processed (1-based)
    cur_insight,     \* the insight the producer returned at that index
    vres,            \* result of the last validate_and_fix_insight call
    valid_count,     \* per-verse count of saved insights
    total_insights,  \* running count of saved insights
    total_issues,    \* running count of issues
    db_pending,      \* rows written on output_conn and not yet committed
    db_committed,    \* rows committed on output_conn
    \* ---- diversify_crossrefs (generate_crossref_insights.py) ----
    crossrefs,       \* the edge list returned by get_cross_references
    selected,        \* the local selected; the result once returned
    rung,            \* the pass that computed selected (0: none yet)
    spc,             \* position in diversify_crossrefs
    \* ---- generate_explanation (generate_crossref_insights.py) ----
    rpc,             \* position in the retry loop
    attempt,         \* loop variable of the retry loop
    outcomes,        \* the producer's answer to each call so far
    sleeps,          \* the delays passed to time.sleep, in order
    last_error,      \* the loop's last_error
    explanation,     \* the value generate_explanation returned
    \* ---- the two stores, over two runs of the scripts ----
    now,             \* the clock datetime.now() and now() read
    run,             \* 1 in the first run of the scripts, 2 in the second
    work,            \* the producer's responses, the same in every run
    kpc,             \* position in the run
    kv,              \* index of the verse being processed (1-based)
    kr,              \* index of the response being processed (1-based)
    pg_pending,      \* crossref_explanations as pg_conn's transaction sees it
    pg_committed,    \* crossref_explanations as committed
    first_run,       \* both tables as the first run left them
    success_count,   \* process_verse's success_count; what it returned last
    \* ---- validate_chapter (validate_insights.py) ----
    validation       \* the ValidationResult, and what the last check returned

cvars == <<verses, dry_run, pc, vi, n_insights, ii, cur_insight, vres,
           valid_count,
           total_insights, total_issues, db_pending, db_committed>>
svars == <<crossrefs, selected, rung, spc>>
rvars == <<rpc, attempt, outcomes, sleeps, last_error, explanation>>
kvars == <<run, work, kpc, kv, kr, pg_pending, pg_committed, first_run,
           success_count, validation>>
vars == <<cvars, svars, rvars, now, kvars>>

-----------------------------------------------------------------------------
(* Bounds of the model.                                                    *)

\* Longest verse text and longest claimed segment_text of the wide inputs.
MaxVerseLen == 4
MaxSegLen == 4
\* Most words of a claimed segment_text made of whole words.
MaxWords == 4
\* Verses of a chapter and insights the producer returns for one verse.
NumVerses == 2
MaxInsights == 2
\* Target books of the cross_references table and rows for one verse.
NumBooks == 4
MaxEdges == 9

-----------------------------------------------------------------------------
(* Python values.                                                          *)

\* Python's None / JSON null.
NoneV == [t |-> "none"]
\* A Python str holding the characters s.
Str(s) == [t |-> "str", v |-> s]
IsStr(x) == x.t = "str"

Min(S) == CHOOSE x \in S : \A y \in S : x <= y
Max(S) == CHOOSE x \in S : \A y \in S : x >= y

-----------------------------------------------------------------------------
(* Python str operations on sequences of characters.                       *)

ToLower ==
    ("A" :> "a") @@ ("B" :> "b") @@ ("C" :> "c") @@ ("D" :> "d") @@ ("E" :> "e")
    @@ ("F" :> "f") @@ ("G" :> "g") @@ ("H" :> "h") @@ ("I" :> "i") @@ ("J" :> "j")
    @@ ("K" :> "k") @@ ("L" :> "l") @@ ("M" :> "m") @@ ("N" :> "n") @@ ("O" :> "o")
    @@ ("P" :> "p") @@ ("Q" :> "q") @@ ("R" :> "r") @@ ("S" :> "s") @@ ("T" :> "t")
    @@ ("U" :> "u") @@ ("V" :> "v") @@ ("W" :> "w") @@ ("X" :> "x") @@ ("Y" :> "y")
    @@ ("Z" :> "z")

\* str.isspace for one character (the whitespace str.split() splits on).
Whitespace == {" ", "\t", "\n"}
Digits == {"0", "1", "2", "3", "4", "5", "6", "7", "8", "9"}
Letters == DOMAIN ToLower \cup {ToLower[c] : c \in DOMAIN ToLower}

lower_char(c) == IF c \in DOMAIN ToLower THEN ToLower[c] ELSE c

\* str.lower()
lower(s) == [i \in 1..Len(s) |-> lower_char(s[i])]

\* s[i:j] for 0 <= i (Python clips j to len(s)).
slice(s, i, j) ==
    LET hi == IF j < Len(s) THEN j ELSE Len(s)
    IN  IF i + 1 > hi THEN <<>> ELSE SubSeq(s, i + 1, hi)

\* str.find: lowest 0-based index of needle in hay, -1 if absent.
find(hay, needle) ==
    LET n == Len(needle)
        at == {i \in 0..(Len(hay) - n) : SubSeq(hay, i + 1, i + n) = needle}
    IN  IF at = {} THEN -1 ELSE Min(at)

\* str.strip(chars)
strip(s, chars) ==
    LET keep == {i \in 1..Len(s) : s[i] \notin chars}
    IN  IF keep = {} THEN <<>> ELSE SubSeq(s, Min(keep), Max(keep))

\* str.split(): the maximal runs of non-whitespace characters, in order.
RECURSIVE split_from(_, _)
split_from(s, i) ==
    IF i > Len(s) THEN <<>>
    ELSE IF s[i] \in Whitespace THEN split_from(s, i + 1)
    ELSE LET stops == {j \in i..Len(s) : s[j] \in Whitespace}
             e == IF stops = {} THEN Len(s) + 1 ELSE Min(stops)
         IN  <<SubSeq(s, i, e - 1)>> \o split_from(s, e)

split(s) == split_from(s, 1)

\* " ".join(words)
RECURSIVE join(_)
join(words) ==
    IF words = <<>> THEN <<>>
    ELSE IF Len(words) = 1 THEN words[1]
    ELSE words[1] \o <<" ">> \o join(Tail(words))

-----------------------------------------------------------------------------
(* find_segment_in_verse (generate_commentary.py:260-344).                 *)

\* The characters of segment_text.strip(".,;:!?\"' ").
StripChars == {".", ",", ";", ":", "!", "?", "\"", "'", " "}

\* Only matches whose joined text has at least this many characters count
\* in the sliding window.
MinWindowChars == 10
\* The least length of a single word the last fallback accepts.
MinSingleWordChars == 5

NoMatch == [found |-> FALSE]
MatchAt(s, e, t) == [found |-> TRUE, start |-> s, end |-> e, text |-> t]

\* "First success wins": r1 if it matched, else r2.
or_else(r1, r2) == IF r1.found THEN r1 ELSE r2

\* actual = text[idx:idx + n]; return (idx, idx + len(actual), actual)
span_of(text, idx, n) ==
    IF idx >= 0 THEN MatchAt(idx, idx + Len(slice(text, idx, idx + n)),
                             slice(text, idx, idx + n))
    ELSE NoMatch

\* idx = verse_text.lower().find(q.lower()), then the verse's own slice.
find_ci(q, verse_text) ==
    span_of(verse_text, find(lower(verse_text), lower(q)), Len(q))

\* return (idx, idx + len(q), q)
exact_at(idx, q) == IF idx >= 0 THEN MatchAt(idx, idx + Len(q), q) ELSE NoMatch

\* find_exact returning the last occurrence of q.
find_exact_last(q, verse_text) ==
    exact_at(Max({-1} \cup {i \in 0..(Len(verse_text) - Len(q)) :
                               slice(verse_text, i, i + Len(q)) = q}), q)

\* Lines 272-275: exact match.
find_exact(q, verse_text) == exact_at(find(verse_text, q), q)

\* Lines 288-296, for the stripped form.
find_if_stripped(stripped, segment_text, verse_text) ==
    IF stripped = segment_text THEN NoMatch
    ELSE or_else(find_exact(stripped, verse_text), find_ci(stripped, verse_text))

\* Lines 286-296: without leading/trailing punctuation.
find_stripped(segment_text, verse_text) ==
    find_if_stripped(strip(segment_text, StripChars), segment_text, verse_text)

\* Lines 301-306, for the normalized forms.
find_if_normalized(normalized_segment, normalized_verse, segment_text) ==
    IF normalized_segment # segment_text
    THEN span_of(normalized_verse,
                 find(lower(normalized_verse), lower(normalized_segment)),
                 Len(normalized_segment))
    ELSE NoMatch

\* Lines 298-306: whitespace-normalized; offsets are those of the
\* normalized verse.
find_normalized(segment_text, verse_text) ==
    find_if_normalized(join(split(segment_text)), join(split(verse_text)),
                       segment_text)

\* find_front trying the leading num_words words only, without shrinking.
find_front_whole(words, num_words, verse_text) ==
    find_ci(join(SubSeq(words, 1, num_words)), verse_text)

\* Lines 312-317: for num_words in range(len(words), 0, -1): words[:num_words]
RECURSIVE find_front(_, _, _)
find_front(words, num_words, verse_text) ==
    IF num_words <= 0 THEN NoMatch
    ELSE or_else(find_ci(join(SubSeq(words, 1, num_words)), verse_text),
                 find_front(words, num_words - 1, verse_text))

\* Lines 320-325: for num_words in range(len(words), 0, -1): words[-num_words:]
RECURSIVE find_back(_, _, _)
find_back(words, num_words, verse_text) ==
    IF num_words <= 0 THEN NoMatch
    ELSE or_else(find_ci(join(SubSeq(words, Len(words) - num_words + 1,
                                     Len(words))), verse_text),
                 find_back(words, num_words - 1, verse_text))

\* Line 331: only a window of at least MinWindowChars characters is tried.
find_if_substantial(partial, verse_text) ==
    IF Len(partial) >= MinWindowChars THEN find_ci(partial, verse_text)
    ELSE NoMatch

\* Lines 328-335: for window_size in range(len(words) - 1, 1, -1):
\*                  for start in range(len(words) - window_size + 1):
RECURSIVE find_window(_, _, _, _)
find_window(words, window_size, start, verse_text) ==
    IF window_size <= 1 THEN NoMatch
    ELSE IF start > Len(words) - window_size
         THEN find_window(words, window_size - 1, 0, verse_text)
    ELSE or_else(find_if_substantial(
                     join(SubSeq(words, start + 1, start + window_size)),
                     verse_text),
                 find_window(words, window_size, start + 1, verse_text))

\* Lines 309-335, for the words of the segment.
find_words(words, verse_text) ==
    IF Len(words) < 2 THEN NoMatch
    ELSE or_else(find_front(words, Len(words), verse_text),
         or_else(find_back(words, Len(words), verse_text),
                 find_window(words, Len(words) - 1, 0, verse_text)))

\* Lines 308-335: the word-level fallback.
find_fuzzy(segment_text, verse_text) == find_words(split(segment_text), verse_text)

\* Lines 337-342: single word fallback.
find_single_word(segment_text, verse_text) ==
    IF Len(split(segment_text)) = 1 /\ Len(segment_text) >= MinSingleWordChars
    THEN find_ci(segment_text, verse_text)
    ELSE NoMatch

\* The cascade: the first strategy that matches decides.
find_segment_in_verse(segment_text, verse_text) ==
    or_else(find_exact(segment_text, verse_text),
    or_else(find_ci(segment_text, verse_text),
    or_else(find_stripped(segment_text, verse_text),
    or_else(find_normalized(segment_text, verse_text),
    or_else(find_fuzzy(segment_text, verse_text),
            find_single_word(segment_text, verse_text))))))

-----------------------------------------------------------------------------
(* normalize_cross_reference and the Strong's check                        *)
(* (generate_commentary.py:347-355, 412).  The regular expressions are     *)
(* run as sets of positions the match can have reached.                    *)

\* One character of class C consumed from a position of P.
After(P, C, s) == {p + 1 : p \in {q \in P : q < Len(s) /\ s[q + 1] \in C}}

\* One or more characters of class C consumed from a position of P.
RECURSIVE Plus(_, _, _)
Plus(P, C, s) ==
    LET n == After(P, C, s)
    IN  IF n = {} THEN {} ELSE n \cup Plus(n, C, s)

\* (\s+[A-Za-z]+)* from a position of P.
RECURSIVE MoreWords(_, _)
MoreWords(P, s) ==
    LET n == Plus(Plus(P, Whitespace, s), Letters, s)
    IN  IF n \subseteq P THEN P ELSE MoreWords(P \cup n, s)

\* re.match(r"^(\d\s+)?([A-Za-z]+(\s+[A-Za-z]+)*)\s+\d+:\d+(-\d+)?$", ref.strip())
normalize_cross_reference(ref) ==
    LET s == strip(ref, Whitespace)
        p1 == {0} \cup Plus(After({0}, Digits, s), Whitespace, s)
        p2 == MoreWords(Plus(p1, Letters, s), s)
        p3 == Plus(Plus(p2, Whitespace, s), Digits, s)
        p4 == Plus(After(p3, {":"}, s), Digits, s)
        p5 == p4 \cup Plus(After(p4, {"-"}, s), Digits, s)
    IN  Len(s) \in p5

\* re.search(r"[GH]\d{1,5}", content)
has_strongs_number(content) ==
    \E i \in 1..(Len(content) - 1) :
        content[i] \in {"G", "H"} /\ content[i + 1] \in Digits

-----------------------------------------------------------------------------
(* validate_and_fix_insight (generate_commentary.py:358-416).              *)
(*                                                                         *)
(* An insight is the dict the producer returned: keys is the set of keys   *)
(* it carries, the fields hold their values (a str, or None for JSON       *)
(* null).  A sources entry is a dict [t |-> "dict", type, reference] or    *)
(* a value that is no dict.                                                *)

Absent == [t |-> "absent"]

required == <<"segment_text", "segment_start_char", "segment_end_char",
              "type", "title", "content", "icon">>

valid_types == {"connection", "greek", "theology", "question"}

\* What a call returns: (fixed_insight, issues), or the exception it raises.
Returned(fixed, issues) == [raised |-> FALSE, insight |-> fixed, issues |-> issues]
Raised(exc) == [raised |-> TRUE, exc |-> exc]

\* Lines 368-370: one issue for each required key the dict lacks, in order.
RECURSIVE missing_fields(_, _)
missing_fields(insight, i) ==
    IF i > Len(required) THEN <<>>
    ELSE (IF required[i] \in insight.keys THEN <<>>
          ELSE <<"Missing required field: " \o required[i]>>)
         \o missing_fields(insight, i + 1)

\* check_sources looking at the first source only.
check_first_source(sources, i) ==
    IF i > Len(sources) THEN "ok"
    ELSE IF sources[i].t # "dict" THEN "AttributeError"
    ELSE IF sources[i].type # "crossReference" THEN "ok"
    ELSE IF sources[i].reference.t = "none" THEN "AttributeError"
    ELSE IF ~normalize_cross_reference(
                IF sources[i].reference.t = "absent" THEN <<>>
                ELSE sources[i].reference.v)
         THEN "invalid"
    ELSE "ok"

\* Lines 402-407: the loop over the sources; "ok", "invalid" at the first
\* crossReference whose reference does not match, or the exception raised.
RECURSIVE check_sources(_, _)
check_sources(sources, i) ==
    IF i > Len(sources) THEN "ok"
    ELSE IF sources[i].t # "dict" THEN "AttributeError"
    ELSE IF sources[i].type # "crossReference" THEN check_sources(sources, i + 1)
    ELSE IF sources[i].reference.t = "none" THEN "AttributeError"
    ELSE IF ~normalize_cross_reference(
                IF sources[i].reference.t = "absent" THEN <<>>
                ELSE sources[i].reference.v)
         THEN "invalid"
    ELSE check_sources(sources, i + 1)

\* Lines 379-384: the insight with the located values written over it.
fix_insight(insight, found) ==
    [insight EXCEPT !.segment_start_char = found.start,
                    !.segment_end_char = found.end,
                    !.segment_text = Str(found.text)]

\* Lines 395-416: the rules of the connection and greek types.
kind_rules(fixed, checked) ==
    IF fixed.type = "connection"
            /\ ("sources" \notin fixed.keys \/ fixed.sources = <<>>)
    THEN Returned(NoneV, <<"Connection insight missing sources">>)
    ELSE IF fixed.type = "connection" /\ checked = "invalid"
    THEN Returned(NoneV, <<"Invalid cross-reference format">>)
    ELSE IF fixed.type = "connection" /\ checked # "ok"
    THEN Raised(checked)
    ELSE IF fixed.type = "greek" /\ ~IsStr(fixed.content)
    THEN Raised("TypeError")
    ELSE IF fixed.type = "greek" /\ ~has_strongs_number(fixed.content.v)
    THEN Returned(NoneV, <<"Greek insight missing Strong's number">>)
    ELSE Returned(fixed, <<>>)

\* type_rules recording the invalid type without giving the insight up.
type_rules_keeping(fixed, checked) ==
    IF fixed.type \notin valid_types
    THEN Returned(fixed, <<"Invalid type: " \o fixed.type>>)
    ELSE kind_rules(fixed, checked)

\* Lines 389-416: the type rules, on the fixed insight.
type_rules(fixed, checked) ==
    IF fixed.type \notin valid_types
    THEN Returned(NoneV, <<"Invalid type: " \o fixed.type>>)
    ELSE kind_rules(fixed, checked)

validate_type_rules(fixed) == type_rules(fixed, check_sources(fixed.sources, 1))

\* fix_if_found going on with the claimed offsets when nothing is found.
fix_unchecked(insight, found) ==
    IF found.found
    THEN validate_type_rules(fix_insight(insight, found))
    ELSE validate_type_rules(insight)

\* Lines 375-387: locate the segment; the tuple find_segment_in_verse
\* returns is truthy whatever it holds.
fix_if_found(insight, found) ==
    IF found.found
    THEN validate_type_rules(fix_insight(insight, found))
    ELSE Returned(NoneV, <<"Segment text not found in verse">>)

locate_and_fix(insight, verse_text) ==
    IF ~IsStr(insight.segment_text) THEN Raised("TypeError")
    ELSE fix_if_found(insight,
                      find_segment_in_verse(insight.segment_text.v, verse_text))

\* Lines 372-373: any missing key ends the call.
return_if_missing(issues, insight, verse_text) ==
    IF issues # <<>> THEN Returned(NoneV, issues)
    ELSE locate_and_fix(insight, verse_text)

validate_and_fix_insight(insight, verse_text) ==
    return_if_missing(missing_fields(insight, 1), insight, verse_text)

-----------------------------------------------------------------------------
(* validate_segment_locator (validate_insights.py:199-229): the post-hoc   *)
(* check of a stored row against the verse text.                           *)

validate_segment_locator(insight, verse_text) ==
    IF insight.segment_start_char < 0 THEN FALSE
    ELSE IF insight.segment_end_char > Len(verse_text) THEN FALSE
    ELSE IF insight.segment_start_char >= insight.segment_end_char THEN FALSE
    ELSE slice(verse_text, insight.segment_start_char, insight.segment_end_char)
            = insight.segment_text.v

-----------------------------------------------------------------------------
(* save_insight and generate_chapter (generate_commentary.py:419-545).     *)

\* The row save_insight writes; its id is
\* f"{book_id}_{chapter}_{verse_num}_{insight['type']}_{index}" within one
\* book and chapter.
insight_row(verse_num, fixed, index, created_at) ==
    [id |-> <<verse_num, fixed.type, index>>,
     created_at |-> created_at,
     verse_start |-> verse_num,
     segment_text |-> fixed.segment_text.v,
     segment_start_char |-> fixed.segment_start_char,
     segment_end_char |-> fixed.segment_end_char,
     insight_type |-> fixed.type,
     title |-> fixed.title,
     content |-> fixed.content,
     sources |-> IF "sources" \in fixed.keys THEN fixed.sources ELSE <<>>]

\* INSERT OR REPLACE: the row takes the place of the row with its id.
insert_or_replace(db, row) == {r \in db : r.id # row.id} \cup {row}

\* output_conn.commit(): the rows written since the last commit take the
\* place of the committed rows with their ids.
commit(committed, pending) ==
    {r \in committed : \A w \in pending : w.id # r.id} \cup pending

\* content is declared TEXT NOT NULL (line 167): sqlite rejects a null, and
\* save_insight returns False; sqlite may reject any other write as well.
save_outcomes(fixed) == IF IsStr(fixed.content) THEN {TRUE, FALSE} ELSE {FALSE}

NoResult == [raised |-> FALSE, insight |-> NoneV, issues |-> <<>>, none |-> TRUE]

\* What one call of the producer can end with: a response whose content
\* parses as JSON, one whose content does not, or an exception of the client.
Response(json) == [kind |-> "response", json |-> json]
Malformed == [kind |-> "malformed"]
ApiError(text) == [kind |-> "error", text |-> text]

\* Texts of the exceptions the client raises.
RateLimited == <<"R","a","t","e"," ","l","i","m","i","t"," ","r","e","a",
                 "c","h","e","d">>
ServiceUnavailable == <<"E","r","r","o","r"," ","c","o","d","e",":"," ","5",
                        "0","3">>
TimedOut == <<"C","o","n","n","e","c","t","i","o","n"," ","t","i","m","e",
              "d"," ","o","u","t">>
Unauthorized == <<"E","r","r","o","r"," ","c","o","d","e",":"," ","4","0",
                  "1">>

\* CONFIG["max_retries"] of generate_commentary.py (line 43).
commentary_max_retries == 3

\* Lines 243-257: the parsed JSON of the response; None when the content
\* does not parse and when the client raises, whatever the error.
generate_insights_for_verse(o) ==
    IF o.kind = "response" THEN o.json ELSE NoneV

\* A JSON object with n insights, and one without the "insights" key.
WithInsights(n) == [t |-> "dict", keys |-> {"insights"}, n |-> n]
WithoutInsights == [t |-> "dict", keys |-> {}, n |-> 0]

\* Lines 518-523: "if not result or "insights" not in result: continue".
AfterGenerate(result) ==
    IF result = NoneV \/ "insights" \notin result.keys
    THEN /\ vi' = vi + 1
         /\ UNCHANGED <<pc, n_insights, ii, valid_count>>
    ELSE /\ n_insights' = result.n
         /\ ii' = 1
         /\ valid_count' = 0
         /\ pc' = "insight"
         /\ UNCHANGED vi

\* What the producer may end the call for a verse with.
VerseOutcomes(max_insights) ==
    {Malformed, ApiError(RateLimited), ApiError(Unauthorized),
     Response(WithoutInsights)}
    \cup {Response(WithInsights(n)) : n \in 0..max_insights}

\* Lines 509-523: the producer is called once for the verse; a None result
\* or a dict without "insights" skips the verse.
GenerateForVerse(max_insights) ==
    /\ pc = "verse"
    /\ vi <= Len(verses)
    /\ \E o \in VerseOutcomes(max_insights) :
          /\ outcomes' = Append(outcomes, [verse |-> verses[vi].verse, outcome |-> o])
          /\ AfterGenerate(generate_insights_for_verse(o))
    /\ UNCHANGED <<verses, dry_run, cur_insight, vres, total_insights, total_issues,
                   db_pending, db_committed, svars, rpc, attempt, sleeps,
                   last_error, explanation, now, kvars>>

\* Lines 528-537: what the loop does with one call's result; saved is
\* what save_insight returned, when it was called.
saves(r) == ~r.raised /\ r.issues = <<>> /\ r.insight # NoneV

HandleResult(c, r, saved) ==
    /\ cur_insight' = c
    /\ vres' = r
    /\ pc' = IF r.raised THEN "aborted" ELSE "insight"
    /\ ii' = IF r.raised THEN ii ELSE ii + 1
    /\ total_issues' = IF r.raised THEN total_issues
                       ELSE total_issues + Len(r.issues)
    /\ valid_count' = IF saves(r) /\ saved THEN valid_count + 1 ELSE valid_count
    /\ db_pending' =
          IF saves(r) /\ saved /\ ~dry_run
          THEN insert_or_replace(db_pending,
                   insight_row(verses[vi].verse, r.insight, ii - 1, now))
          ELSE db_pending
    /\ now' = IF saves(r) /\ saved /\ ~dry_run THEN now + 1 ELSE now

\* What save_insight can return for the result r of a call.
save_results(r) ==
    IF saves(r) /\ ~dry_run THEN save_outcomes(r.insight) ELSE {TRUE}

ValidateAndHandle(c, r) == \E saved \in save_results(r) : HandleResult(c, r, saved)

\* Lines 525-537: one iteration of the loop over the insights.  The
\* exception a call raises is caught nowhere (neither here nor in main).
ProcessInsight(candidates) ==
    /\ pc = "insight"
    /\ ii <= n_insights
    /\ \E c \in candidates :
          ValidateAndHandle(c, validate_and_fix_insight(c, verses[vi].text))
    /\ UNCHANGED <<verses, dry_run, vi, n_insights, total_insights,
                   db_committed, svars, rvars, kvars>>

\* Lines 539-540: the verse is done; the loop's locals are dead.
FinishVerse ==
    /\ pc = "insight"
    /\ ii > n_insights
    /\ total_insights' = total_insights + valid_count
    /\ vi' = vi + 1
    /\ pc' = "verse"
    /\ cur_insight' = NoneV
    /\ vres' = NoResult
    /\ UNCHANGED <<verses, dry_run, n_insights, ii, valid_count, total_issues,
                   db_pending, db_committed, svars, rvars, now, kvars>>

\* Lines 542-543: one commit, after the last verse of the chapter.
CommitChapter ==
    /\ pc = "verse"
    /\ vi > Len(verses)
    /\ pc' = "done"
    /\ db_committed' = IF dry_run THEN db_committed
                       ELSE commit(db_committed, db_pending)
    /\ db_pending' = IF dry_run THEN db_pending ELSE {}
    /\ UNCHANGED <<verses, dry_run, vi, n_insights, ii, cur_insight, vres,
                   valid_count, total_insights, total_issues, svars, rvars, now, kvars>>

-----------------------------------------------------------------------------
(* Inputs.                                                                 *)

\* All texts of at most n characters of S.
TextsUpTo(S, n) == UNION {[1..k -> S] : k \in 0..n}

VerseChars == {"A", " ", "."}
SegChars == {"a", "A", " ", "."}

\* An insight with every required key.
MkInsight(seg, type, content, sources) ==
    [keys |-> {"segment_text", "segment_start_char", "segment_end_char",
               "type", "title", "content", "icon", "sources", "is_interpretive"},
     segment_text |-> seg,
     segment_start_char |-> -1,
     segment_end_char |-> 99,
     type |-> type,
     title |-> "title",
     content |-> content,
     icon |-> "icon",
     sources |-> sources]

Without(ins, key) == [ins EXCEPT !.keys = @ \ {key}]

PlainContent == Str(<<"l", "o", "g", "o", "s">>)
StrongsContent == Str(<<"G", "3", "0", "5", "6">>)

CrossRef(reference) ==
    [t |-> "dict", type |-> "crossReference", reference |-> reference]
GoodRef == Str(<<"1", " ", "J", "n", " ", "1", ":", "5", "-", "7">>)
BadRef == Str(<<"J", "n", " ", "1", ".", "5">>)
StrongsSource ==
    [t |-> "dict", type |-> "strongs", reference |-> Str(<<"G", "1">>)]

SourceLists ==
    {<<>>, <<CrossRef(GoodRef)>>, <<CrossRef(BadRef)>>, <<CrossRef(Absent)>>,
     <<CrossRef(NoneV)>>, <<StrongsSource>>, <<[t |-> "str"]>>,
     <<CrossRef(GoodRef), CrossRef(BadRef)>>, <<StrongsSource, CrossRef(GoodRef)>>}

\* The type rules' cases: (type, content, sources).
KindCases ==
    ({"connection"} \X {PlainContent} \X SourceLists)
    \cup ({"greek"} \X {PlainContent, StrongsContent, NoneV} \X {<<>>})
    \cup ({"theology", "question", "sermon"} \X {PlainContent} \X {<<>>})

\* Claimed segment texts for the type cases: locatable in "A A." or not.
FewSegs == {<<"A">>, <<"a", " ", ".">>, <<"a", "a">>}

\* A verse of whole words, and the words claimed segment texts are made
\* of: two of the verse and one that is not in it.
WordVerse == <<"T", "h", "e", " ", "l", "i", "g", "h", "t", " ",
               "s", "h", "i", "n", "e", "t", "h">>
Vocabulary == {<<"a", "n", "d">>, <<"l", "i", "g", "h", "t">>,
               <<"s", "h", "i", "n", "e", "t", "h">>}

\* Claimed segment texts of one to MaxWords words with single spaces.
WordInsights ==
    {MkInsight(Str(join(ws)), "theology", PlainContent, <<>>) :
        ws \in UNION {[1..k -> Vocabulary] : k \in 1..MaxWords}}

\* Every short claimed segment text with one type, and every type case
\* with a few segment texts; a null segment_text; dicts lacking required
\* keys.
WideInsights ==
    {MkInsight(Str(seg), "theology", PlainContent, <<>>) :
        seg \in TextsUpTo(SegChars, MaxSegLen)}
    \cup {MkInsight(Str(seg), k[1], k[2], k[3]) : seg \in FewSegs, k \in KindCases}
    \cup {MkInsight(NoneV, "theology", PlainContent, <<>>)}
    \cup {Without(MkInsight(Str(<<"A">>), "connection", PlainContent, <<>>), key) :
             key \in {"segment_text", "icon", "sources"}}
    \cup {Without(Without(MkInsight(Str(<<"A">>), "theology", PlainContent, <<>>),
                          "type"), "title")}

\* Nothing stored, no run of the two scripts under way.
SinkIdle ==
    /\ now = 1 /\ run = 1 /\ work = <<>> /\ kpc = "idle" /\ kv = 1 /\ kr = 1
    /\ pg_pending = {} /\ pg_committed = {} /\ first_run = NoneV
    /\ success_count = 0 /\ validation = NoneV

Idle ==
    /\ SinkIdle
    /\ crossrefs = <<>> /\ selected = <<>> /\ rung = 0 /\ spc = "idle"
    /\ rpc = "idle" /\ attempt = 0 /\ outcomes = <<>> /\ sleeps = <<>>
    /\ last_error = NoneV /\ explanation = NoneV

ChapterStart ==
    /\ pc = "verse"
    /\ vi = 1
    /\ n_insights = 0
    /\ ii = 1
    /\ cur_insight = NoneV
    /\ vres = NoResult
    /\ valid_count = 0
    /\ total_insights = 0
    /\ total_issues = 0
    /\ db_pending = {}
    /\ db_committed = {}

\* One verse, of any short text that begins with a word or the verse of
\* whole words; one insight, of the wide set for a short verse and of the
\* word set for the verse of whole words.
InitValidate ==
    /\ \/ \E rest \in TextsUpTo(VerseChars, MaxVerseLen - 1) :
             verses = <<[verse |-> 1, text |-> <<"A">> \o rest]>>
       \/ verses = <<[verse |-> 1, text |-> WordVerse]>>
    /\ dry_run = FALSE
    /\ ChapterStart
    /\ Idle

\* The producer returns at most one insight, any of the wide set.
GenerateOne == GenerateForVerse(1)
ValidateInsight ==
    ProcessInsight(IF verses[vi].text = WordVerse THEN WordInsights
                   ELSE WideInsights)

NextValidate ==
    \/ GenerateOne
    \/ ValidateInsight
    \/ FinishVerse
    \/ CommitChapter

SpecValidate == InitValidate /\ [][NextValidate]_vars

-----------------------------------------------------------------------------
(* Properties of validate_and_fix_insight, over SpecValidate.              *)

\* A call of validate_and_fix_insight has been made for cur_insight, and
\* vres is what it gave.
Validated == cur_insight # NoneV

\* The call returned a fixed insight.
Accepted == Validated /\ ~vres.raised /\ vres.insight # NoneV

\* The text of the verse the call was made for.
VerseText == verses[vi].text

\* C1: the segment_text of every accepted candidate is exactly
\* verse_text[segment_start_char:segment_end_char], whatever the whitespace
\* of the verse.
C1_SegmentIsVerseSlice ==
    Accepted =>
        vres.insight.segment_text.v
            = slice(VerseText, vres.insight.segment_start_char,
                    vres.insight.segment_end_char)

\* C2: every accepted candidate has
\* 0 <= segment_start_char < segment_end_char <= len(verse_text), whatever
\* segment_text was claimed (the empty string and punctuation included).
C2_OffsetsInRange ==
    Accepted =>
        /\ 0 <= vres.insight.segment_start_char
        /\ vres.insight.segment_start_char < vres.insight.segment_end_char
        /\ vres.insight.segment_end_char <= Len(VerseText)

\* The candidate has every required key and a segment text that no
\* strategy of the locator finds in the verse.
Unlocatable ==
    /\ Validated
    /\ missing_fields(cur_insight, 1) = <<>>
    /\ IsStr(cur_insight.segment_text)
    /\ ~find_segment_in_verse(cur_insight.segment_text.v, VerseText).found

\* C3: a candidate with every required field whose segment text cannot be
\* located gets (None, issues) with at least one issue, and no row is
\* written for it.
C3_UnlocatableRejected ==
    Unlocatable =>
        /\ ~vres.raised
        /\ vres.insight = NoneV
        /\ Len(vres.issues) >= 1
        /\ valid_count = 0
        /\ db_pending = {}

C3_Witness ==
    /\ Unlocatable
    /\ cur_insight.segment_text.v = <<"a", "a">>
    /\ VerseText = <<"A", " ", "A">>
    /\ vres.issues = <<"Segment text not found in verse">>
    /\ ii = 2

\* The sources entries of type crossReference all match the reference
\* pattern.
RECURSIVE all_references_match(_, _)
all_references_match(sources, i) ==
    IF i > Len(sources) THEN TRUE
    ELSE /\ (sources[i].type = "crossReference" =>
                /\ IsStr(sources[i].reference)
                /\ normalize_cross_reference(sources[i].reference.v))
         /\ all_references_match(sources, i + 1)

\* C4: every accepted candidate has one of the four types; a connection
\* has at least one source and only matching cross-references; a greek
\* insight has a Strong's number in its content.  A connection claimed
\* without sources is never accepted.
C4_TypeRules ==
    /\ Accepted =>
          /\ vres.insight.type \in {"connection", "greek", "theology", "question"}
          /\ vres.insight.type = "connection" =>
                /\ "sources" \in vres.insight.keys
                /\ Len(vres.insight.sources) >= 1
                /\ all_references_match(vres.insight.sources, 1)
          /\ vres.insight.type = "greek" =>
                /\ IsStr(vres.insight.content)
                /\ has_strongs_number(vres.insight.content.v)
    /\ (/\ Validated
        /\ ~vres.raised
        /\ "type" \in cur_insight.keys
        /\ cur_insight.type = "connection"
        /\ ("sources" \notin cur_insight.keys \/ cur_insight.sources = <<>>))
       => vres.insight = NoneV

C4_Witness ==
    /\ Accepted
    /\ vres.insight.type = "connection"
    /\ vres.insight.sources = <<StrongsSource, CrossRef(GoodRef)>>

\* C5: a call that returns gives either (fixed insight, no issue) or
\* (None, at least one issue), never an insight with issues nor None
\* without one.
C5_ResultShape ==
    (Validated /\ ~vres.raised) =>
        \/ vres.insight # NoneV /\ vres.issues = <<>>
        \/ vres.insight = NoneV /\ Len(vres.issues) >= 1

C5_Witness ==
    /\ Validated
    /\ ~vres.raised
    /\ vres.insight = NoneV
    /\ Len(vres.issues) = 2

-----------------------------------------------------------------------------
(* generate_chapter over a chapter of NumVerses verses.                    *)

\* The text of verse k of the chapter.
ChapterText(k) ==
    IF k % 2 = 1 THEN <<"A", " ", "A", ".">> ELSE <<"A", " ", " ", "A">>

\* What the producer may return for a verse: a good insight, one that is
\* not in the verse, a connection with a reference, and dicts whose
\* required keys hold null.
ChapterInsights ==
    {MkInsight(Str(<<"A">>), "theology", PlainContent, <<>>),
     MkInsight(Str(<<"a", "a">>), "theology", PlainContent, <<>>),
     MkInsight(Str(<<"a", " ", "a">>), "connection", PlainContent,
               <<CrossRef(GoodRef)>>),
     MkInsight(NoneV, "question", PlainContent, <<>>),
     MkInsight(Str(<<"A">>), "theology", NoneV, <<>>)}

Init ==
    /\ verses = [k \in 1..NumVerses |-> [verse |-> k, text |-> ChapterText(k)]]
    /\ dry_run \in BOOLEAN
    /\ ChapterStart
    /\ Idle

GenerateVerse == GenerateForVerse(MaxInsights)
ValidateCandidate == ProcessInsight(ChapterInsights)

Next ==
    \/ GenerateVerse
    \/ ValidateCandidate
    \/ FinishVerse
    \/ CommitChapter

Spec == Init /\ [][Next]_vars

\* C6: no candidate aborts the run: every call of validate_and_fix_insight
\* returns, and the loop goes on to the next candidate and the next verse.
C6_NoCandidateAborts ==
    /\ Validated => ~vres.raised
    /\ pc # "aborted"

\* The producer calls made so far for the verse.
CallsFor(verse) == {i \in 1..Len(outcomes) : outcomes[i].verse = verse}

\* The outcomes the retry policy answers with another attempt.
RetryableVerseOutcomes == {Malformed, ApiError(RateLimited)}

\* C11: in generate_chapter a retryable outcome of the producer call for a
\* verse is followed by a backoff sleep and another call for the same
\* verse, until commentary_max_retries calls were made for it; only then
\* is the verse skipped.
C11_SingleVerseRetries ==
    \A i \in 1..Len(outcomes) :
        (/\ outcomes[i].outcome \in RetryableVerseOutcomes
         /\ Cardinality(CallsFor(outcomes[i].verse)) < commentary_max_retries)
        => /\ Len(sleeps) >= 1
           /\ vi <= Len(verses)
           /\ verses[vi].verse = outcomes[i].verse

-----------------------------------------------------------------------------
(* get_cross_references, _select_with_constraints and diversify_crossrefs  *)
(* (generate_crossref_insights.py:191-270).                                *)

\* CONFIG, lines 54-57, and the literals of the relaxed passes.
min_crossrefs == 5
max_crossrefs == 7
max_per_book == 2
adjacency_threshold == 5
relaxed_adjacency == 20
relaxed_per_book == 4

Edge(book, start, weight) ==
    [target_book |-> book,
     target_chapter |-> IF book = 2 /\ start = 4 THEN 2 ELSE 1,
     target_verse_start |-> start,
     target_verse_end |-> start, weight |-> weight]

\* ORDER BY weight DESC, target_book_id ASC, target_chapter ASC,
\*          target_verse_start ASC, target_verse_end ASC
Before(a, b) ==
    \/ a.weight > b.weight
    \/ a.weight = b.weight /\ a.target_book < b.target_book
    \/ a.weight = b.weight /\ a.target_book = b.target_book
       /\ a.target_chapter < b.target_chapter
    \/ a.weight = b.weight /\ a.target_book = b.target_book
       /\ a.target_chapter = b.target_chapter
       /\ a.target_verse_start < b.target_verse_start
    \/ a.weight = b.weight /\ a.target_book = b.target_book
       /\ a.target_chapter = b.target_chapter
       /\ a.target_verse_start = b.target_verse_start
       /\ a.target_verse_end < b.target_verse_end

RECURSIVE get_cross_references(_)
ordered_from(first, rows) == <<first>> \o get_cross_references(rows \ {first})

\* The rows of the verse, in the order of the query.
get_cross_references(rows) ==
    IF rows = {} THEN <<>>
    ELSE ordered_from(CHOOSE r \in rows : \A o \in rows \ {r} : Before(r, o), rows)

Abs(x) == IF x < 0 THEN -x ELSE x

\* book_counts.get(target_book, 0): selected edges of that book.
book_count(sel, book) == Cardinality({k \in 1..Len(sel) : sel[k].target_book = book})

\* is_adjacent comparing the verses of a book whatever their chapters.
is_adjacent_in_book(sel, ref, threshold) ==
    \E k \in 1..Len(sel) :
        /\ sel[k].target_book = ref.target_book
        /\ Abs(sel[k].target_verse_start - ref.target_verse_start) <= threshold

\* Lines 219-224: some selected position of the same book and chapter is
\* within the threshold.
is_adjacent(sel, ref, threshold) ==
    \E k \in 1..Len(sel) :
        /\ sel[k].target_book = ref.target_book
        /\ sel[k].target_chapter = ref.target_chapter
        /\ Abs(sel[k].target_verse_start - ref.target_verse_start) <= threshold

\* select_from letting a book pass once it has reached its maximum.
RECURSIVE select_past_maximum(_, _, _, _, _, _)
select_past_maximum(refs, i, sel, per_book, threshold, max_count) ==
    IF i > Len(refs) THEN sel
    ELSE IF book_count(sel, refs[i].target_book) > per_book
         THEN select_past_maximum(refs, i + 1, sel, per_book, threshold, max_count)
    ELSE IF is_adjacent(sel, refs[i], threshold)
         THEN select_past_maximum(refs, i + 1, sel, per_book, threshold, max_count)
    ELSE IF Len(sel) + 1 >= max_count THEN Append(sel, refs[i])
    ELSE select_past_maximum(refs, i + 1, Append(sel, refs[i]), per_book,
                             threshold, max_count)

\* select_from putting the edge it accepts in front of the others.
RECURSIVE select_in_front(_, _, _, _, _, _)
select_in_front(refs, i, sel, per_book, threshold, max_count) ==
    IF i > Len(refs) THEN sel
    ELSE IF book_count(sel, refs[i].target_book) >= per_book
         THEN select_in_front(refs, i + 1, sel, per_book, threshold, max_count)
    ELSE IF is_adjacent(sel, refs[i], threshold)
         THEN select_in_front(refs, i + 1, sel, per_book, threshold, max_count)
    ELSE IF Len(sel) + 1 >= max_count THEN <<refs[i]>> \o sel
    ELSE select_in_front(refs, i + 1, <<refs[i]>> \o sel, per_book, threshold,
                         max_count)

\* Lines 210-235: the loop from crossrefs[i] on, with sel selected so far;
\* book_counts and selected_positions are functions of sel.
RECURSIVE select_from(_, _, _, _, _, _)
select_from(refs, i, sel, per_book, threshold, max_count) ==
    IF i > Len(refs) THEN sel
    ELSE IF book_count(sel, refs[i].target_book) >= per_book
         THEN select_from(refs, i + 1, sel, per_book, threshold, max_count)
    ELSE IF is_adjacent(sel, refs[i], threshold)
         THEN select_from(refs, i + 1, sel, per_book, threshold, max_count)
    ELSE IF Len(sel) + 1 >= max_count THEN Append(sel, refs[i])
    ELSE select_from(refs, i + 1, Append(sel, refs[i]), per_book, threshold,
                     max_count)

_select_with_constraints(refs, per_book, threshold, max_count) ==
    select_from(refs, 1, <<>>, per_book, threshold, max_count)

\* ReturnOrGoOn returning whatever a pass selected.
ReturnAnything(result, pass, next_pc) ==
    /\ selected' = result
    /\ rung' = pass
    /\ spc' = IF Len(result) >= 1 THEN "returned" ELSE next_pc
    /\ UNCHANGED <<crossrefs, cvars, rvars, now, kvars>>

\* Lines 250-251, 258-259, 266-267: return selected if it is long enough.
ReturnOrGoOn(result, pass, next_pc) ==
    /\ selected' = result
    /\ rung' = pass
    /\ spc' = IF Len(result) >= min_crossrefs THEN "returned" ELSE next_pc
    /\ UNCHANGED <<crossrefs, cvars, rvars, now, kvars>>

\* Lines 242-251: pass 1, strict constraints.
StrictPass ==
    /\ spc = "pass1"
    /\ ReturnOrGoOn(_select_with_constraints(crossrefs, max_per_book,
                        adjacency_threshold, max_crossrefs), 1, "pass2")

\* Lines 253-259: pass 2, the adjacency threshold changed.
RelaxAdjacency ==
    /\ spc = "pass2"
    /\ ReturnOrGoOn(_select_with_constraints(crossrefs, max_per_book,
                        relaxed_adjacency, max_crossrefs), 2, "pass3")

\* Lines 261-267: pass 3, more edges for each book.
RelaxPerBook ==
    /\ spc = "pass3"
    /\ ReturnOrGoOn(_select_with_constraints(crossrefs, relaxed_per_book,
                        relaxed_adjacency, max_crossrefs), 3, "pass4")

\* TakeTop returning every edge.
TakeEvery ==
    /\ spc = "pass4"
    /\ selected' = crossrefs
    /\ rung' = 4
    /\ spc' = "returned"
    /\ UNCHANGED <<crossrefs, cvars, rvars, now, kvars>>

\* Lines 269-270: pass 4, return crossrefs[:max_refs].
TakeTop ==
    /\ spc = "pass4"
    /\ selected' = slice(crossrefs, 0, max_crossrefs)
    /\ rung' = 4
    /\ spc' = "returned"
    /\ UNCHANGED <<crossrefs, cvars, rvars, now, kvars>>

\* The verse starts the table holds for a target book.
Starts(book) == IF book <= 2 THEN {1, 4, 30, 60} ELSE {1, 30}

Targets == UNION {{<<b, v>> : v \in Starts(b)} : b \in 1..NumBooks}

\* The rows of the verse for the targets ts, heavy outweighing the others.
Table(ts, heavy) == {Edge(t[1], t[2], IF t = heavy THEN 2 ELSE 1) : t \in ts}

\* n rows of one weight for successive verses of a chapter.
Dense(n) == {Edge(1, start, 1) : start \in 1..n}

\* At most MaxEdges rows, of which at most one outweighs the others, or
\* as many rows for successive verses.
InitSelect ==
    /\ \/ \E ts \in SUBSET Targets :
             /\ Cardinality(ts) <= MaxEdges
             /\ \E heavy \in ts \cup {<<0, 0>>} :
                   crossrefs = get_cross_references(Table(ts, heavy))
       \/ \E n \in 0..MaxEdges : crossrefs = get_cross_references(Dense(n))
    /\ selected = <<>>
    /\ rung = 0
    /\ spc = "pass1"
    /\ verses = <<>> /\ dry_run = FALSE /\ ChapterStart /\ SinkIdle
    /\ rpc = "idle" /\ attempt = 0 /\ outcomes = <<>> /\ sleeps = <<>>
    /\ last_error = NoneV /\ explanation = NoneV

NextSelect ==
    \/ StrictPass
    \/ RelaxAdjacency
    \/ RelaxPerBook
    \/ TakeTop

SpecSelect == InitSelect /\ [][NextSelect]_vars

\* The edges of seq whose target is in the book.
InBook(seq, book) == {k \in 1..Len(seq) : seq[k].target_book = book}

\* C7: what the strict pass selects has at most max_per_book edges of any
\* target book and at most max_crossrefs edges in all.
C7_StrictPassBounds ==
    rung = 1 =>
        /\ \A book \in 1..NumBooks :
              Cardinality(InBook(selected, book)) <= max_per_book
        /\ Len(selected) <= max_crossrefs

\* The strict pass cut at max_crossrefs a list holding more, having left
\* out an edge of a book that had its two.
C7_Witness ==
    /\ rung = 1
    /\ Len(crossrefs) > max_crossrefs
    /\ Len(selected) = max_crossrefs
    /\ InBook(crossrefs, 1) = {1, 2, 3}
    /\ InBook(selected, 1) = {1, 2}
    /\ crossrefs[3].target_verse_start = 60

\* C8: diversify_crossrefs returns at least min(min_crossrefs, number of
\* edges) and at most max_crossrefs edges, whichever pass returns.
C8_ResultSize ==
    spc = "returned" =>
        /\ Len(selected) >= Min({min_crossrefs, Len(crossrefs)})
        /\ Len(selected) <= max_crossrefs

\* The third pass returned more than the strict pass could.
C8_Witness ==
    /\ spc = "returned"
    /\ rung = 3
    /\ Len(selected) > min_crossrefs
    /\ Len(crossrefs) > max_crossrefs

\* What each rung gives for the edges of the verse, and its constraints.
PerBook(pass) == IF pass = 3 THEN relaxed_per_book ELSE max_per_book
Threshold(pass) == IF pass = 1 THEN adjacency_threshold ELSE relaxed_adjacency
RungOutput(pass) ==
    IF pass = 4 THEN slice(crossrefs, 0, max_crossrefs)
    ELSE _select_with_constraints(crossrefs, PerBook(pass), Threshold(pass),
                                  max_crossrefs)

\* C18: diversify_crossrefs returns what the first rung with at least
\* min_crossrefs edges gives (the strict pass; the pass with the adjacency
\* threshold relaxed_adjacency; the pass with relaxed_per_book as well; the
\* first max_crossrefs edges), the last rung whatever it gives; every rung
\* is computed from the edge list of the verse alone.
C18_FirstSufficientRung ==
    spc = "returned" =>
        /\ rung \in 1..4
        /\ selected = RungOutput(rung)
        /\ rung < 4 => Len(selected) >= min_crossrefs
        /\ \A pass \in 1..(rung - 1) : Len(RungOutput(pass)) < min_crossrefs

\* No constrained pass gave enough of the edges of a dense chapter: the
\* last rung returned the first max_crossrefs of more.
C18_Witness ==
    /\ spc = "returned"
    /\ rung = 4
    /\ Len(crossrefs) > max_crossrefs
    /\ Len(selected) = max_crossrefs
    /\ Len(RungOutput(1)) = max_per_book

\* The edges of crossrefs before index i that the pass accepted.
AcceptedBefore(i) ==
    {j \in 1..(i - 1) : \E k \in 1..Len(selected) : selected[k] = crossrefs[j]}

Collide(a, b, threshold) ==
    /\ a.target_book = b.target_book
    /\ a.target_chapter = b.target_chapter
    /\ a.target_verse_start - b.target_verse_start <= threshold
    /\ b.target_verse_start - a.target_verse_start <= threshold

\* C19: a constrained pass accepts an edge exactly when fewer than
\* max_crossrefs edges were accepted before it, fewer than the rung's
\* maximum of them are of its target book, and none of them is of its book
\* and chapter within the rung's threshold of verses; no two accepted edges
\* collide.
C19_AcceptedExactly ==
    rung \in 1..3 =>
        /\ \A i \in 1..Len(crossrefs) :
              (\E k \in 1..Len(selected) : selected[k] = crossrefs[i])
              <=> /\ Cardinality(AcceptedBefore(i)) < max_crossrefs
                  /\ Cardinality({j \in AcceptedBefore(i) :
                         crossrefs[j].target_book = crossrefs[i].target_book})
                        < PerBook(rung)
                  /\ \A j \in AcceptedBefore(i) :
                        ~Collide(crossrefs[j], crossrefs[i], Threshold(rung))
        /\ \A k, m \in 1..Len(selected) :
              k # m => ~Collide(selected[k], selected[m], Threshold(rung))

\* The strict pass accepted the verses 1 and 4 of book 2, which are of two
\* chapters, and left out verse 4 of book 1 for verse 1 of its chapter.
C19_Witness ==
    /\ rung = 1
    /\ \E k, m \in 1..Len(selected) :
          /\ selected[k].target_book = 2 /\ selected[k].target_verse_start = 1
          /\ selected[m].target_book = 2 /\ selected[m].target_verse_start = 4
    /\ \E i \in 1..Len(crossrefs) :
          /\ crossrefs[i].target_book = 1
          /\ crossrefs[i].target_verse_start = 4
          /\ 1 \in AcceptedBefore(i)
          /\ \A k \in 1..Len(selected) : selected[k] # crossrefs[i]

\* The places in crossrefs of the edges of selected, in the order of
\* selected.
Places ==
    [k \in 1..Len(selected) |->
        {i \in 1..Len(crossrefs) : crossrefs[i] = selected[k]}]

\* C20: what a rung gives is a subsequence of the edge list: its edges are
\* edges of the list, in the order of the list; the list being in the
\* order of descending weight, the weights of the result never increase.
C20_ResultIsSubsequence ==
    rung \in 1..4 =>
        /\ \A k \in 1..Len(selected) : Places[k] # {}
        /\ \A k \in 1..(Len(selected) - 1) :
              \A i \in Places[k], j \in Places[k + 1] : i < j
        /\ \A k \in 1..(Len(selected) - 1) :
              selected[k].weight >= selected[k + 1].weight

\* A pass left out an edge between two it accepted, the first of them
\* outweighing the others.
C20_Witness ==
    /\ rung \in 1..3
    /\ Len(selected) >= 2
    /\ selected[1].weight > selected[2].weight
    /\ \E k \in 1..(Len(selected) - 1) :
          \E i \in Places[k], j \in Places[k + 1] : j > i + 1

\* C25: each rung relaxes the one before it: for every edge list the pass
\* with the adjacency threshold relaxed_adjacency accepts at least as many
\* edges as the strict pass, and the pass with relaxed_per_book at least as
\* many as the pass with relaxed_adjacency alone.
C25_RungsRelax ==
    /\ rung = 2 => Len(selected) >= Len(RungOutput(1))
    /\ rung = 3 => Len(selected) >= Len(RungOutput(2))

\* C28: for fewer than min_crossrefs edges diversify_crossrefs returns all
\* of them in the order of the list, whatever their books and verses: no
\* constrained pass reaches min_crossrefs, so the last rung returns the
\* list; no edge gives no edge.
C28_FewEdgesAllReturned ==
    (spc = "returned" /\ Len(crossrefs) < min_crossrefs) =>
        /\ selected = crossrefs
        /\ rung = 4
        /\ \A pass \in 1..3 : Len(RungOutput(pass)) < min_crossrefs

\* Four edges returned, three of them of one book and two of these at
\* neighbouring verses of a chapter.
C28_Witness ==
    /\ spc = "returned"
    /\ Len(crossrefs) = min_crossrefs - 1
    /\ selected = crossrefs
    /\ \E book \in 1..NumBooks : Cardinality(InBook(selected, book)) > max_per_book
    /\ \E i, j \in 1..Len(selected) :
          i # j /\ Collide(selected[i], selected[j], adjacency_threshold)

-----------------------------------------------------------------------------
(* _validate_explanation, classify_connection and generate_explanation     *)
(* (generate_crossref_insights.py:279-380).                                *)

\* CONFIG, lines 58-59; base_delay is 1.0 second.
max_retries == 3
base_delay == 1
\* Lines 297 and 303.
MaxTitleWords == 10
MinContentChars == 20

\* "kw in content_lower"
contains(text, kw) == find(text, kw) >= 0

\* CONNECTION_KEYWORDS (lines 94-101), in the order of the dict.
CONNECTION_KEYWORDS ==
    <<[type |-> <<"q","u","o","t","a","t","i","o","n">>,
       keywords |-> {<<"q","u","o","t","e">>, <<"q","u","o","t","e","d">>,
                     <<"c","i","t","i","n","g">>,
                     <<"c","i","t","a","t","i","o","n">>,
                     <<"a","l","l","u","s","i","o","n">>,
                     <<"a","l","l","u","d","e">>, <<"e","c","h","o","e","s">>}],
      [type |-> <<"t","h","e","m","e">>,
       keywords |-> {<<"t","h","e","m","e">>, <<"t","h","e","m","a","t","i","c">>,
                     <<"c","o","n","c","e","p","t">>, <<"i","d","e","a">>,
                     <<"m","o","t","i","f">>}],
      [type |-> <<"t","y","p","o","l","o","g","y">>,
       keywords |-> {<<"t","y","p","e">>, <<"s","h","a","d","o","w">>,
                     <<"p","r","e","f","i","g","u","r","e">>,
                     <<"a","n","t","i","t","y","p","e">>,
                     <<"f","o","r","e","s","h","a","d","o","w">>}],
      [type |-> <<"p","r","o","p","h","e","c","y">>,
       keywords |-> {<<"p","r","o","p","h","e","c">>, <<"f","u","l","f","i","l","l">>,
                     <<"f","o","r","e","t","o","l","d">>,
                     <<"p","r","e","d","i","c","t">>}],
      [type |-> <<"p","a","r","a","l","l","e","l">>,
       keywords |-> {<<"p","a","r","a","l","l","e","l">>,
                     <<"s","i","m","i","l","a","r">>,
                     <<"c","o","m","p","a","r","e">>,
                     <<"a","n","a","l","o","g","y">>,
                     <<"l","i","k","e","w","i","s","e">>}],
      [type |-> <<"k","e","y","w","o","r","d">>,
       keywords |-> {<<"w","o","r","d">>, <<"t","e","r","m">>,
                     <<"p","h","r","a","s","e">>,
                     <<"l","a","n","g","u","a","g","e">>,
                     <<"v","o","c","a","b","u","l","a","r","y">>}]>>

\* Lines 282-285: the first type one of whose keywords the content holds.
RECURSIVE classify_from(_, _)
classify_from(content_lower, i) ==
    IF i > Len(CONNECTION_KEYWORDS) THEN <<"o","t","h","e","r">>
    ELSE IF \E kw \in CONNECTION_KEYWORDS[i].keywords : contains(content_lower, kw)
         THEN CONNECTION_KEYWORDS[i].type
    ELSE classify_from(content_lower, i + 1)

classify_connection(content) == classify_from(lower(content), 1)

valid_connection_types ==
    {<<"q","u","o","t","a","t","i","o","n">>,
     <<"t","h","e","m","e">>,
     <<"t","y","p","o","l","o","g","y">>,
     <<"p","r","o","p","h","e","c","y">>,
     <<"p","a","r","a","l","l","e","l">>,
     <<"k","e","y","w","o","r","d">>, <<"o","t","h","e","r">>}
Medium == <<"m","e","d","i","u","m">>
valid_confidence == {<<"h","i","g","h">>, Medium, <<"l","o","w">>}

\* "key not in result or not result[key]": absent, None or empty.
falsy(result, key) ==
    \/ key \notin result.keys
    \/ ~IsStr(result[key])
    \/ result[key].v = <<>>

\* Lines 296-299: the stripped title, cut to its first ten words.
sanitize_title(title) ==
    IF Len(split(title)) > MaxTitleWords
    THEN join(SubSeq(split(title), 1, MaxTitleWords))
    ELSE title

\* Lines 312-320: confidence and anchor_phrase.
sanitize_confidence(result) ==
    IF "confidence" \in result.keys /\ IsStr(result.confidence)
       /\ result.confidence.v \in valid_confidence
    THEN result.confidence ELSE Str(Medium)

sanitize_anchor(result, source_text) ==
    IF "anchor_phrase" \notin result.keys THEN result.anchor_phrase
    ELSE IF IsStr(result.anchor_phrase) /\ result.anchor_phrase.v # <<>>
            /\ ~contains(lower(source_text), lower(result.anchor_phrase.v))
         THEN NoneV
    ELSE result.anchor_phrase

\* Lines 295-322, for the stripped content.
sanitized(result, content, source_text) ==
    [result EXCEPT
        !.title = Str(sanitize_title(strip(result.title.v, Whitespace))),
        !.content = Str(content),
        !.connection_type =
            IF result.connection_type.v \in valid_connection_types THEN @
            ELSE Str(classify_connection(content)),
        !.confidence = sanitize_confidence(result),
        !.keys = @ \cup {"confidence"},
        !.anchor_phrase = sanitize_anchor(result, source_text)]

\* Lines 301-305: the content must have twenty characters.
check_content(result, content, source_text) ==
    IF Len(content) < MinContentChars
    THEN [raised |-> TRUE, exc |-> "ValueError", text |-> "Content too short"]
    ELSE [raised |-> FALSE, result |-> sanitized(result, content, source_text)]

\* Lines 287-322: the sanitized result, or the ValueError raised.
_validate_explanation(result, source_text) ==
    IF falsy(result, "title") \/ falsy(result, "content")
       \/ falsy(result, "connection_type")
    THEN [raised |-> TRUE, exc |-> "ValueError", text |-> "Missing required key"]
    ELSE check_content(result, strip(result.content.v, Whitespace), source_text)

\* Line 367: the signatures of a rate limit or of a server error.
retryable_signatures ==
    {<<"r","a","t","e">>, <<"4","2","9">>, <<"5","0","0">>, <<"5","0","2">>,
     <<"5","0","3">>}

\* retryable_error taking every error for retryable.
every_error_retryable(text) == TRUE

\* Lines 365-367: error_str = str(e).lower() holds one of the signatures.
retryable_error(text) ==
    \E sig \in retryable_signatures : contains(lower(text), sig)

\* backoff_delay without the exponent.
flat_delay(n) == base_delay

\* Line 375: delay = CONFIG["base_delay"] * (2 ** attempt)
backoff_delay(n) == base_delay * (2 ^ n)

\* Lines 325-332: the dry-run placeholder.
Placeholder ==
    [keys |-> {"title", "content", "connection_type", "confidence",
               "anchor_phrase"},
     title |-> Str(<<"C","o","n","n","e","c","t","i","o","n"," ","t","o",
                     " ","J","o","h","n"," ","1",":","1">>),
     content |-> Str(<<"[","D","R","Y"," ","R","U","N"," ","-"," ","N","o",
                       " ","A","P","I"," ","c","a","l","l"," ","m","a","d",
                       "e","]">>),
     connection_type |-> Str(<<"t","h","e","m","e">>),
     confidence |-> Str(Medium),
     anchor_phrase |-> NoneV]

\* The source verse's text of the pair.
SourceText == <<"t","h","e"," ","W","o","r","d">>

\* Lines 324-342: the placeholder in a dry run, else the loop is entered.
BeginExplanation ==
    /\ rpc = "start"
    /\ IF dry_run
       THEN /\ explanation' = Placeholder
            /\ rpc' = "done"
       ELSE /\ rpc' = "call"
            /\ UNCHANGED explanation
    /\ attempt' = 0
    /\ last_error' = NoneV
    /\ UNCHANGED <<outcomes, sleeps, cvars, svars, now, kvars>>

\* Lines 356-362: the except clauses for a response: v is what
\* _validate_explanation gave for its JSON.
AfterResponse(v) ==
    IF v.raised
    THEN /\ last_error' = [prefix |-> "Validation failed", text |-> v.text]
         /\ rpc' = "sleep"
         /\ UNCHANGED explanation
    ELSE /\ explanation' = v.result
         /\ rpc' = "done"
         /\ UNCHANGED last_error

\* Lines 363-372: the except clause for any other exception.
AfterError(text) ==
    IF retryable_error(text)
    THEN /\ last_error' = [prefix |-> "API error (retrying)", error |-> text]
         /\ rpc' = "sleep"
         /\ UNCHANGED explanation
    ELSE /\ explanation' = NoneV
         /\ rpc' = "done"
         /\ UNCHANGED last_error

\* Lines 343-372: one pass through the try statement, the producer ending
\* the call with outcome o.
AfterCall(o) ==
    IF o.kind = "response"
    THEN AfterResponse(_validate_explanation(o.json, SourceText))
    ELSE IF o.kind = "malformed"
    THEN /\ last_error' = [prefix |-> "Invalid JSON", text |-> "JSONDecodeError"]
         /\ rpc' = "sleep"
         /\ UNCHANGED explanation
    ELSE AfterError(o.text)

CallProducer(producer_outcomes) ==
    /\ rpc = "call"
    /\ \E o \in producer_outcomes :
          /\ outcomes' = Append(outcomes, o)
          /\ AfterCall(o)
    /\ UNCHANGED <<attempt, sleeps, cvars, svars, now, kvars>>

\* Backoff letting the loop run max_retries + 1 times.
BackoffOnceMore ==
    /\ rpc = "sleep"
    /\ sleeps' = Append(sleeps, backoff_delay(attempt))
    /\ attempt' = attempt + 1
    /\ rpc' = IF attempt < max_retries THEN "call" ELSE "done"
    /\ explanation' = IF attempt < max_retries THEN explanation ELSE NoneV
    /\ UNCHANGED <<outcomes, last_error, cvars, svars, now, kvars>>

\* Lines 374-380: the backoff after a failed attempt, the last one
\* included; after max_retries attempts the loop ends and None is returned.
Backoff ==
    /\ rpc = "sleep"
    /\ sleeps' = Append(sleeps, backoff_delay(attempt))
    /\ attempt' = attempt + 1
    /\ rpc' = IF attempt + 1 < max_retries THEN "call" ELSE "done"
    /\ explanation' = IF attempt + 1 < max_retries THEN explanation ELSE NoneV
    /\ UNCHANGED <<outcomes, last_error, cvars, svars, now, kvars>>

\* JSON objects the model may return.
Explanation(title, content, connection_type, confidence, anchor_phrase) ==
    [keys |-> {"title", "content", "connection_type", "confidence",
               "anchor_phrase"},
     title |-> Str(title), content |-> Str(content),
     connection_type |-> Str(connection_type), confidence |-> confidence,
     anchor_phrase |-> anchor_phrase]

QuotesIsaiah ==
    Explanation(<<"W","o","r","d"," ","m","a","d","e"," ","f","l","e","s",
                  "h">>,
        <<"B","o","t","h"," ","p","a","s","s","a","g","e","s"," ","q","u",
          "o","t","e"," ","I","s","a","i","a","h",".">>,
        <<"q","u","o","t","a","t","i","o","n">>, Str(<<"h","i","g","h">>),
        Str(<<"t","h","e"," ","w","o","r","d">>))
SharedTheme ==
    Explanation(<<" ","a"," ","b"," ","c"," ","d"," ","e"," ","f"," ","g",
                  " ","h"," ","i"," ","j"," ","k">>,
        <<"A"," ","s","h","a","r","e","d"," ","t","h","e","m","e"," ","o",
          "f"," ","l","i","g","h","t"," ","a","n","d"," ","l","i","f","e",
          "."," ">>,
        <<"c","a","u","s","a","l">>, NoneV,
        Str(<<"d","a","r","k","n","e","s","s">>))
TooShort ==
    Explanation(<<"W","o","r","d"," ","m","a","d","e"," ","f","l","e","s",
                  "h">>,
        <<"T","o","o"," ","s","h","o","r","t",".">>,
        <<"t","h","e","m","e">>, Str(Medium), NoneV)
NoTitle == [QuotesIsaiah EXCEPT !.title = Str(<<>>)]
BlankTitle == [QuotesIsaiah EXCEPT !.title = Str(<<" ">>)]

ProducerOutcomes ==
    {Response(QuotesIsaiah), Response(SharedTheme), Response(TooShort),
     Response(NoTitle), Response(BlankTitle), Malformed, ApiError(RateLimited),
     ApiError(ServiceUnavailable), ApiError(TimedOut), ApiError(Unauthorized)}

InitRetry ==
    /\ rpc = "start"
    /\ attempt = 0
    /\ outcomes = <<>>
    /\ sleeps = <<>>
    /\ last_error = NoneV
    /\ explanation = NoneV
    /\ dry_run \in BOOLEAN
    /\ verses = <<>> /\ ChapterStart /\ SinkIdle
    /\ crossrefs = <<>> /\ selected = <<>> /\ rung = 0 /\ spc = "idle"

GenerateOnce == CallProducer(ProducerOutcomes)

NextRetry ==
    \/ BeginExplanation
    \/ GenerateOnce
    \/ Backoff

SpecRetry == InitRetry /\ [][NextRetry]_vars

\* The body of generate_explanation is sequential code: a step that can be
\* taken is taken (the producer's call is taken to return or to raise).
SpecRetryFair == SpecRetry /\ WF_vars(NextRetry)

\* The outcomes after which another attempt is due, and those that end
\* the call for good.
RetryableOutcomes ==
    {Malformed, Response(TooShort), Response(NoTitle), ApiError(RateLimited),
     ApiError(ServiceUnavailable)}
ValidResponses ==
    {Response(QuotesIsaiah), Response(SharedTheme), Response(BlankTitle)}
FatalOutcomes == {ApiError(TimedOut), ApiError(Unauthorized)}

\* C9: after k retryable outcomes and a valid response to call k + 1,
\* generate_explanation returns the validated result of call k + 1, having
\* slept k times, base_delay * 2^i the i-th time (i from 0).
C9_RetryThenSuccess ==
    (/\ outcomes # <<>>
     /\ outcomes[Len(outcomes)] \in ValidResponses
     /\ \A i \in 1..(Len(outcomes) - 1) : outcomes[i] \in RetryableOutcomes)
    => /\ rpc = "done"
       /\ explanation
             = _validate_explanation(outcomes[Len(outcomes)].json, SourceText).result
       /\ outcomes[Len(outcomes)] = Response(QuotesIsaiah)
             => explanation = QuotesIsaiah
       /\ Len(sleeps) = Len(outcomes) - 1
       /\ \A i \in 1..Len(sleeps) : sleeps[i] = base_delay * (2 ^ (i - 1))

\* Two responses that are no JSON, then a valid one.
C9_Witness ==
    /\ outcomes = <<Malformed, Malformed, Response(QuotesIsaiah)>>
    /\ rpc = "done"
    /\ explanation = QuotesIsaiah
    /\ sleeps = <<1, 2>>

\* C10: an error that is neither a rate limit nor a server error ends
\* generate_explanation at once with None: it is the last call, and no
\* sleep follows it, at whatever attempt it comes.
C10_FatalErrorReturnsNone ==
    \A i \in 1..Len(outcomes) :
        outcomes[i] \in FatalOutcomes =>
            /\ i = Len(outcomes)
            /\ rpc = "done"
            /\ explanation = NoneV
            /\ Len(sleeps) = i - 1
            /\ attempt = i - 1

\* The second call fails for good after one backoff.
C10_Witness ==
    /\ outcomes = <<Malformed, ApiError(Unauthorized)>>
    /\ rpc = "done"
    /\ explanation = NoneV
    /\ sleeps = <<1>>

\* C12: outside dry-run every result of generate_explanation other than None
\* has a non-empty title, content and connection_type, a content of at
\* least MinContentChars characters, a connection_type of the enumeration,
\* a confidence of high, medium or low, and an anchor_phrase that is null,
\* empty or found in the source text whatever the case of its letters.
C12_ExplanationWellFormed ==
    (rpc = "done" /\ ~dry_run /\ explanation # NoneV)
    => /\ explanation.title.v # <<>>
       /\ explanation.content.v # <<>>
       /\ explanation.connection_type.v # <<>>
       /\ Len(explanation.content.v) >= MinContentChars
       /\ explanation.connection_type.v \in valid_connection_types
       /\ explanation.confidence.v \in valid_confidence
       /\ \/ explanation.anchor_phrase = NoneV
          \/ explanation.anchor_phrase.v = <<>>
          \/ contains(lower(SourceText), lower(explanation.anchor_phrase.v))

\* The producer's outcome is a JSON object whose connection_type is not
\* of the enumeration or whose confidence is not high, medium or low.
OutOfEnumeration(o) ==
    /\ o.kind = "response"
    /\ \/ ~IsStr(o.json.connection_type)
       \/ o.json.connection_type.v \notin valid_connection_types
       \/ ~IsStr(o.json.confidence)
       \/ o.json.confidence.v \notin valid_confidence

\* C23: a response that parses as JSON with a connection_type outside the
\* enumeration, or a confidence outside {high, medium, low}, fails the
\* validation and is retried: generate_explanation sleeps after it and
\* returns no result built from it.
C23_OutOfEnumerationRetried ==
    \A i \in 1..Len(outcomes) :
        OutOfEnumeration(outcomes[i]) =>
            /\ i = Len(outcomes) => (rpc = "sleep" \/ Len(sleeps) >= i)
            /\ i < Len(outcomes) => Len(sleeps) >= i
            /\ (rpc = "done" /\ i = Len(outcomes)) => explanation = NoneV

\* C24: generate_explanation terminates whatever the producer does: one
\* invocation makes at most max_retries calls of the producer, the first
\* one counted, and returns None when each of them ended in a retryable
\* outcome.
C24_TerminatesWithinRetries ==
    /\ [](Len(outcomes) <= max_retries)
    /\ []((/\ rpc = "done"
           /\ ~dry_run
           /\ \A i \in 1..Len(outcomes) : outcomes[i] \in RetryableOutcomes)
          => (explanation = NoneV /\ Len(outcomes) = max_retries))
    /\ <>(rpc = "done")

\* Three calls, each with a retryable outcome, and None returned.
C24_Witness ==
    /\ outcomes = <<Malformed, Response(TooShort), ApiError(RateLimited)>>
    /\ Len(outcomes) = max_retries
    /\ rpc = "done"
    /\ explanation = NoneV

\* C26: every backoff sleep of generate_explanation is followed by another
\* call of the producer: when the function has returned, each sleep it made
\* came before a later call, so none follows the final attempt.
C26_NoSleepAfterLastAttempt ==
    rpc = "done" =>
        \A i \in 1..Len(sleeps) : Len(outcomes) >= i + 1

\* The places where q stands in verse_text, character for character.
Occurrences(q, verse_text) ==
    {i \in 0..(Len(verse_text) - Len(q)) :
        \A k \in 1..Len(q) : verse_text[i + k] = q[k]}

\* The locator gives (first, first + len(q), q) for q, and for the text it
\* returned as well.
LocatesAt(q, verse_text, first) ==
    /\ find_segment_in_verse(q, verse_text) = MatchAt(first, first + Len(q), q)
    /\ find_segment_in_verse(find_segment_in_verse(q, verse_text).text, verse_text)
          = MatchAt(first, first + Len(q), q)

\* The candidate validated has every required key and a segment text that
\* stands in the verse as it is.
ExactQuotation ==
    /\ Validated
    /\ missing_fields(cur_insight, 1) = <<>>
    /\ IsStr(cur_insight.segment_text)
    /\ Occurrences(cur_insight.segment_text.v, VerseText) # {}

\* C16: for a quotation that is an exact substring of the verse,
\* find_segment_in_verse returns (i, i + len(quotation), quotation), i the
\* first place where it stands; locating the returned text again gives the
\* same triple; the offsets validate_and_fix_insight stores are these.
C16_ExactQuotationLocated ==
    ExactQuotation =>
        /\ LocatesAt(cur_insight.segment_text.v, VerseText,
                     Min(Occurrences(cur_insight.segment_text.v, VerseText)))
        /\ Accepted =>
              /\ vres.insight.segment_start_char
                    = Min(Occurrences(cur_insight.segment_text.v, VerseText))
              /\ vres.insight.segment_text = cur_insight.segment_text

\* A quotation of two characters that stands twice in the verse, at 0 and
\* further on, is stored with the offsets 0 and 2.
C16_Witness ==
    /\ ExactQuotation
    /\ Accepted
    /\ Len(cur_insight.segment_text.v) = 2
    /\ Cardinality(Occurrences(cur_insight.segment_text.v, VerseText)) = 2
    /\ vres.insight.segment_start_char = 0
    /\ vres.insight.segment_end_char = 2

\* " ".join(text.split()): runs of whitespace collapsed to single spaces.
Normalized(text) == join(split(text))

\* The first place where the normalized quotation stands in the normalized
\* verse, both lowercased; -1 if it stands nowhere.
NormalizedPlace(q, verse_text) ==
    find(lower(Normalized(verse_text)), lower(Normalized(q)))

\* The locator gives the normalized verse's offsets and slice for q.
LocatesNormalized(q, verse_text, idx) ==
    find_segment_in_verse(q, verse_text)
        = MatchAt(idx, idx + Len(Normalized(q)),
                  slice(Normalized(verse_text), idx, idx + Len(Normalized(q))))

\* The candidate validated has a segment text that the first three
\* strategies do not find and whose normalized form stands in the
\* normalized verse.
OnlyNormalizedStands ==
    /\ Validated
    /\ missing_fields(cur_insight, 1) = <<>>
    /\ IsStr(cur_insight.segment_text)
    /\ ~find_exact(cur_insight.segment_text.v, VerseText).found
    /\ ~find_ci(cur_insight.segment_text.v, VerseText).found
    /\ ~find_stripped(cur_insight.segment_text.v, VerseText).found
    /\ NormalizedPlace(cur_insight.segment_text.v, VerseText) >= 0

\* C21: whenever strategies 1 to 3 fail and the whitespace-normalized
\* quotation stands case-insensitively in the whitespace-normalized verse,
\* find_segment_in_verse returns that occurrence's offsets in the normalized
\* verse and the normalized verse's slice, also for a quotation that has
\* single spaces only while the verse has runs of whitespace.
C21_NormalizedQuotationLocated ==
    OnlyNormalizedStands =>
        LocatesNormalized(cur_insight.segment_text.v, VerseText,
                          NormalizedPlace(cur_insight.segment_text.v, VerseText))

\* The runs of n consecutive words, each joined by single spaces.
WordRuns(words, n) ==
    {join(SubSeq(words, i, i + n - 1)) : i \in 1..(Len(words) - n + 1)}

\* Some run of more than k of the words stands case-insensitively in
\* verse_text.
LongerRunStands(words, k, verse_text) ==
    \E n \in (k + 1)..Len(words) : \E r \in WordRuns(words, n) :
        find(lower(verse_text), lower(r)) >= 0

\* The candidate validated has a segment text that strategies 1 to 4 do
\* not find and the word-level fallback does.
FuzzyDecides ==
    /\ Validated
    /\ missing_fields(cur_insight, 1) = <<>>
    /\ IsStr(cur_insight.segment_text)
    /\ ~find_exact(cur_insight.segment_text.v, VerseText).found
    /\ ~find_ci(cur_insight.segment_text.v, VerseText).found
    /\ ~find_stripped(cur_insight.segment_text.v, VerseText).found
    /\ ~find_normalized(cur_insight.segment_text.v, VerseText).found
    /\ find_fuzzy(cur_insight.segment_text.v, VerseText).found

\* C22: in the word-level fallback larger word windows take precedence
\* over smaller ones: find_segment_in_verse never returns a match for a run
\* of k words of the quotation when a run of more than k of its consecutive
\* words stands case-insensitively in the verse.
C22_LargerWindowFirst ==
    FuzzyDecides =>
        ~LongerRunStands(
            split(cur_insight.segment_text.v),
            Len(split(find_segment_in_verse(cur_insight.segment_text.v,
                                            VerseText).text)),
            VerseText)

\* The word stands case-insensitively in verse_text.
WordStands(word, verse_text) == find(lower(verse_text), lower(word)) >= 0

\* Neither the first nor the last of the words stands in verse_text.
EndsAbsent(words, verse_text) ==
    /\ ~WordStands(words[1], verse_text)
    /\ ~WordStands(words[Len(words)], verse_text)

\* The candidate validated has a segment text of two words or more.
SeveralWords ==
    /\ Validated
    /\ missing_fields(cur_insight, 1) = <<>>
    /\ IsStr(cur_insight.segment_text)
    /\ Len(split(cur_insight.segment_text.v)) >= 2

\* C29: for a quotation of two or more words find_segment_in_verse returns
\* nothing only if neither its first nor its last word stands
\* case-insensitively in the verse: the front and the back pass go down to
\* one word of any length, so the sliding window with its floor of
\* MinWindowChars characters is reached only when both words are absent.
C29_NothingOnlyIfEndsAbsent ==
    SeveralWords =>
        /\ ~find_segment_in_verse(cur_insight.segment_text.v, VerseText).found
              => EndsAbsent(split(cur_insight.segment_text.v), VerseText)
        /\ (/\ ~find_front(split(cur_insight.segment_text.v),
                           Len(split(cur_insight.segment_text.v)), VerseText).found
            /\ ~find_back(split(cur_insight.segment_text.v),
                          Len(split(cur_insight.segment_text.v)), VerseText).found)
              => EndsAbsent(split(cur_insight.segment_text.v), VerseText)

\* Three words of which only the middle one stands in the verse: no
\* window of two of them has MinWindowChars characters, and nothing is
\* returned.
C29_Witness ==
    /\ SeveralWords
    /\ Unlocatable
    /\ Len(split(cur_insight.segment_text.v)) = 3
    /\ WordStands(split(cur_insight.segment_text.v)[2], VerseText)
    /\ EndsAbsent(split(cur_insight.segment_text.v), VerseText)
    /\ vres.insight = NoneV

-----------------------------------------------------------------------------
(* save_insight and insert_crossref: the two stores over two runs.         *)

\* Lines 405-435 of generate_crossref_insights.py: the row of an edge and
\* its explanation.  The columns of ON CONFLICT make the key; created_at
\* and updated_at are not named by the INSERT and take the time of the
\* statement.
crossref_row(source_verse, ref, e, t) ==
    [key |-> <<source_verse, ref.target_book, ref.target_chapter,
               ref.target_verse_start, ref.target_verse_end,
               e.connection_type.v>>,
     anchor_phrase |-> e.anchor_phrase, title |-> e.title.v,
     content |-> e.content.v, weight |-> ref.weight,
     confidence |-> e.confidence.v, created_at |-> t, updated_at |-> t]

\* The row as DO UPDATE SET leaves it (lines 417-423).
do_update(old, row) ==
    [old EXCEPT !.title = row.title, !.content = row.content,
                !.anchor_phrase = row.anchor_phrase, !.weight = row.weight,
                !.confidence = row.confidence, !.updated_at = row.updated_at]

\* on_conflict_update inserting a row whatever the table holds.
insert_always(table, row) == table \cup {row}

\* INSERT ... ON CONFLICT (key) DO UPDATE (lines 407-423).
on_conflict_update(table, row) ==
    IF \E old \in table : old.key = row.key
    THEN {IF old.key = row.key THEN do_update(old, row) ELSE old : old \in table}
    ELSE table \cup {row}

\* Lines 525-535 of generate_commentary.py for the candidate at index kr of
\* the verse, r being what validate_and_fix_insight returned for it.
SaveIfAccepted(r) ==
    IF saves(r) /\ ~dry_run
    THEN /\ db_pending' = insert_or_replace(db_pending,
                              insight_row(verses[kv].verse, r.insight, kr - 1, now))
         /\ now' = now + 1
    ELSE UNCHANGED <<db_pending, now>>

SaveInsight ==
    /\ kpc = "insights"
    /\ kv <= Len(verses)
    /\ kr <= Len(work.insights)
    /\ SaveIfAccepted(validate_and_fix_insight(work.insights[kr], verses[kv].text))
    /\ kr' = kr + 1
    /\ UNCHANGED <<verses, dry_run, pc, vi, n_insights, ii, cur_insight, vres,
                   valid_count, total_insights, total_issues, db_committed,
                   svars, rvars, run, work, kpc, kv, pg_pending, pg_committed,
                   first_run, success_count, validation>>

\* Lines 539-540 of generate_commentary.py: on to the next verse.
NextVerse ==
    /\ kpc = "insights"
    /\ kv <= Len(verses)
    /\ kr > Len(work.insights)
    /\ kv' = kv + 1
    /\ kr' = 1
    /\ UNCHANGED <<cvars, svars, rvars, now, run, work, kpc, pg_pending,
                   pg_committed, first_run, success_count, validation>>

\* Lines 542-543 of generate_commentary.py; the other script runs next.
CommitInsights ==
    /\ kpc = "insights"
    /\ kv > Len(verses)
    /\ db_committed' = IF dry_run THEN db_committed
                       ELSE commit(db_committed, db_pending)
    /\ db_pending' = IF dry_run THEN db_pending ELSE {}
    /\ kpc' = "crossrefs"
    /\ kv' = 1
    /\ kr' = 1
    /\ UNCHANGED <<verses, dry_run, pc, vi, n_insights, ii, cur_insight, vres,
                   valid_count, total_insights, total_issues, svars, rvars,
                   now, run, work, pg_pending, pg_committed, first_run,
                   success_count, validation>>

\* Line 467 and lines 479-487 of generate_crossref_insights.py: v is what
\* _validate_explanation gave for the response (generate_explanation
\* returns None when every attempt raised), count the success_count the
\* iteration starts with.  insert_crossref returns True in a dry run too.
InsertIfExplained(ref, v, count) ==
    /\ IF ~v.raised /\ ~dry_run
       THEN /\ pg_pending' = on_conflict_update(pg_pending,
                                 crossref_row(verses[kv].verse, ref, v.result, now))
            /\ now' = now + 1
       ELSE UNCHANGED <<pg_pending, now>>
    /\ success_count' = IF v.raised THEN count ELSE count + 1

\* success_count = 0 (line 467) before the first edge of a verse.
CountSoFar == IF kr = 1 THEN 0 ELSE success_count

InsertCrossref ==
    /\ kpc = "crossrefs"
    /\ kv <= Len(verses)
    /\ kr <= Len(work.responses)
    /\ InsertIfExplained(Edge(kr, 1, 1),
                         _validate_explanation(work.responses[kr], SourceText),
                         CountSoFar)
    /\ kr' = kr + 1
    /\ UNCHANGED <<cvars, svars, rvars, run, work, kpc, kv, pg_committed,
                   first_run, validation>>

\* Lines 437-439: cur.execute raises before the statement is run (a value
\* the driver cannot adapt, say): insert_crossref prints the error and
\* returns False, and the edge is not counted.
InsertRefused ==
    /\ kpc = "crossrefs"
    /\ kv <= Len(verses)
    /\ kr <= Len(work.responses)
    /\ ~dry_run
    /\ ~_validate_explanation(work.responses[kr], SourceText).raised
    /\ success_count' = CountSoFar
    /\ kr' = kr + 1
    /\ UNCHANGED <<cvars, svars, rvars, now, run, work, kpc, kv, pg_pending,
                   pg_committed, first_run, validation>>

\* Lines 441-448 and 492-495: the commit after each verse, and the count
\* returned.
CommitBatch ==
    /\ kpc = "crossrefs"
    /\ kv <= Len(verses)
    /\ kr > Len(work.responses)
    /\ pg_committed' = pg_pending
    /\ success_count' = CountSoFar
    /\ kv' = kv + 1
    /\ kr' = 1
    /\ UNCHANGED <<cvars, svars, rvars, now, run, work, kpc, pg_pending,
                   first_run, validation>>

\* Lines 445-448 and 495: pg_conn.commit() raises; commit_batch rolls the
\* transaction back and prints the error, and process_verse returns its
\* count.
CommitRefused ==
    /\ kpc = "crossrefs"
    /\ kv <= Len(verses)
    /\ kr > Len(work.responses)
    /\ ~dry_run
    /\ pg_pending' = pg_committed
    /\ success_count' = CountSoFar
    /\ kv' = kv + 1
    /\ kr' = 1
    /\ UNCHANGED <<cvars, svars, rvars, now, run, work, kpc, pg_committed,
                   first_run, validation>>

\* Both scripts are through; they are started once more on the same input.
FinishRun ==
    /\ kpc = "crossrefs"
    /\ kv > Len(verses)
    /\ kv' = 1
    /\ kr' = 1
    /\ IF run = 1
       THEN /\ run' = 2
            /\ kpc' = "insights"
            /\ first_run' = [insights |-> db_committed, crossrefs |-> pg_committed]
       ELSE /\ kpc' = "done"
            /\ UNCHANGED <<run, first_run>>
    /\ UNCHANGED <<cvars, svars, rvars, now, work, pg_pending, pg_committed,
                   success_count, validation>>

\* The candidates validate_and_fix_insight returns for, and the responses
\* of the producer for an edge.
SinkInsights ==
    {c \in ChapterInsights : IsStr(c.segment_text) /\ IsStr(c.content)}
SinkResponses == {QuotesIsaiah, SharedTheme, TooShort}

\* The same candidates and the same responses for every verse and in both
\* runs; the tables are empty before the first run.
InitSink ==
    /\ verses = [k \in 1..NumVerses |-> [verse |-> k, text |-> ChapterText(k)]]
    /\ dry_run \in BOOLEAN
    /\ ChapterStart
    /\ crossrefs = <<>> /\ selected = <<>> /\ rung = 0 /\ spc = "idle"
    /\ rpc = "idle" /\ attempt = 0 /\ outcomes = <<>> /\ sleeps = <<>>
    /\ last_error = NoneV /\ explanation = NoneV
    /\ now = 1 /\ run = 1 /\ kpc = "insights" /\ kv = 1 /\ kr = 1
    /\ pg_pending = {} /\ pg_committed = {} /\ first_run = NoneV
    /\ success_count = 0 /\ validation = NoneV
    /\ \E i \in 0..MaxInsights, j \in 0..MaxInsights :
          \E cs \in [1..i -> SinkInsights], rs \in [1..j -> SinkResponses] :
              work = [insights |-> cs, responses |-> rs]

NextSink ==
    \/ SaveInsight
    \/ NextVerse
    \/ CommitInsights
    \/ InsertCrossref
    \/ CommitBatch
    \/ FinishRun

SpecSink == InitSink /\ [][NextSink]_vars

\* The runs in which the store may refuse a statement or a commit.
NextStore ==
    \/ NextSink
    \/ InsertRefused
    \/ CommitRefused

SpecStore == InitSink /\ [][NextStore]_vars

\* The columns of a row other than its timestamps.
Content(row) ==
    [c \in (DOMAIN row) \ {"created_at", "updated_at"} |-> row[c]]

\* C13: the second run of the two scripts on the same verses, edges and
\* producer responses leaves both committed tables as the first run left
\* them: no row more in commentary_insights or in crossref_explanations,
\* and every row with the content it had (the timestamps aside).
C13_SecondRunChangesNothing ==
    run = 2 =>
        /\ Cardinality(db_committed) = Cardinality(first_run.insights)
        /\ Cardinality(pg_committed) = Cardinality(first_run.crossrefs)
        /\ {Content(r) : r \in db_committed}
              = {Content(r) : r \in first_run.insights}
        /\ {Content(r) : r \in pg_committed}
              = {Content(r) : r \in first_run.crossrefs}

\* The second run is through, and each table holds a row for each verse.
C13_Witness ==
    /\ run = 2
    /\ kpc = "done"
    /\ Cardinality(db_committed) >= NumVerses
    /\ Cardinality(pg_committed) >= NumVerses
    /\ now > 1 + Cardinality(db_committed) + Cardinality(pg_committed)

\* The explanation InsertCrossref writes in this step.
Written == _validate_explanation(work.responses[kr], SourceText).result

\* C14: a write that meets a row with its key overwrites the row's title,
\* content, anchor_phrase, weight and confidence and sets its update
\* timestamp to the time of the write; the row keeps the creation
\* timestamp it had, in crossref_explanations and in commentary_insights.
C14_UpsertKeepsCreation ==
    [][/\ \A old \in pg_pending, new \in pg_pending' :
             (old.key = new.key /\ new # old) =>
                 /\ new.created_at = old.created_at
                 /\ new.updated_at = now
                 /\ new.title = Written.title.v
                 /\ new.content = Written.content.v
                 /\ new.anchor_phrase = Written.anchor_phrase
                 /\ new.confidence = Written.confidence.v
                 /\ new.weight = Edge(kr, 1, 1).weight
       /\ \A old \in db_committed, new \in db_committed' :
             old.id = new.id => new.created_at = old.created_at]_vars

\* C15: between two verses nothing is left uncommitted, in either script:
\* when a verse is about to be processed, every row written for the verses
\* before it is committed, so that a termination there loses none of them.
C15_CommitPerVerse ==
    ~dry_run =>
        /\ (kpc = "crossrefs" /\ kr = 1) => pg_pending = pg_committed
        /\ (kpc = "insights" /\ kr = 1) => db_pending = {}

\* process_verse has just returned for the verse before kv, outside a
\* dry run.
VerseReturned == kpc = "crossrefs" /\ kr = 1 /\ kv > 1 /\ ~dry_run

\* The committed rows of crossref_explanations for a source verse.
CommittedFor(verse) == {row \in pg_committed : row.key[1] = verse}

\* C27: with a database connection, the success count process_verse returns
\* for a verse is the number of rows of that verse that are committed when
\* it returns, also when an insert or the commit of the verse failed.
C27_CountIsCommittedRows ==
    VerseReturned =>
        success_count = Cardinality(CommittedFor(verses[kv - 1].verse))

-----------------------------------------------------------------------------
(* validate_content_quality (validate_insights.py).                        *)

\* BAN_LIST (lines 32-47).
BAN_LIST ==
    <<<<"d","e","f","i","n","i","t","i","v","e","l","y"," ","p","r","o","v",
       "e","s">>,
     <<"t","h","i","s"," ","v","e","r","s","e"," ","p","r","o","v","e","s">>,
     <<"b","e","y","o","n","d"," ","a","n","y"," ","d","o","u","b","t">>,
     <<"t","h","e"," ","o","n","l","y"," ","c","o","r","r","e","c","t"," ",
       "i","n","t","e","r","p","r","e","t","a","t","i","o","n">>,
     <<"a","l","l"," ","C","h","r","i","s","t","i","a","n","s"," ","m","u",
       "s","t"," ","b","e","l","i","e","v","e">>,
     <<"I"," ","b","e","l","i","e","v","e">>,
     <<"i","n"," ","m","y"," ","o","p","i","n","i","o","n">>,
     <<"p","r","o","b","a","b","l","y"," ","m","e","a","n","s">>,
     <<"h","o","w"," ","d","o","e","s"," ","t","h","i","s"," ","m","a","k",
       "e"," ","y","o","u"," ","f","e","e","l">>,
     <<"j","o","u","r","n","a","l"," ","a","b","o","u","t">>,
     <<"p","r","a","y"," ","a","b","o","u","t"," ","t","h","i","s">>>>

\* The bounds of the length checks (lines 298-309).
min_content_len == 30
max_content_len == 500
min_title_len == 3
max_title_len == 50

\* result.add_warning(insight_id, message) appends this.
Warning(insight_id, message, detail) ==
    [insight_id |-> insight_id, message |-> message, detail |-> detail]

\* banned_found looking at the content alone.
banned_in_content(content, title) ==
    SelectSeq(BAN_LIST, LAMBDA banned : contains(content, lower(banned)))

\* Lines 290-293: the phrases of BAN_LIST found in the lowercased content or
\* title, in the order of the list.
banned_found(content, title) ==
    SelectSeq(BAN_LIST, LAMBDA banned : \/ contains(content, lower(banned))
                                        \/ contains(title, lower(banned)))

ban_warnings(insight_id, found) ==
    [k \in 1..Len(found) |->
        Warning(insight_id, "Contains banned phrase", found[k])]

\* Lines 296-311: one warning when the length is below lo or above hi.
length_warnings(insight_id, what, n, lo, hi) ==
    IF n < lo THEN <<Warning(insight_id, what \o " too short", n)>>
    ELSE IF n > hi THEN <<Warning(insight_id, what \o " too long", n)>>
    ELSE <<>>

\* The warnings of one call, in the order they are added.
quality_warnings(insight) ==
    ban_warnings(insight.id,
                 banned_found(lower(insight.content), lower(insight.title)))
    \o length_warnings(insight.id, "Content", Len(insight.content),
                       min_content_len, max_content_len)
    \o length_warnings(insight.id, "Title", Len(insight.title),
                       min_title_len, max_title_len)

\* Lines 282-313: the ValidationResult after the call, and what it returned.
validate_content_quality(insight, result) ==
    [errors |-> result.errors,
     warnings |-> result.warnings \o quality_warnings(insight),
     valid |-> quality_warnings(insight) = <<>>]

\* The gate is applied to the row at index kr of the rows selected.
CheckQuality ==
    /\ kpc = "quality"
    /\ kr <= Len(work)
    /\ validation' = validate_content_quality(work[kr], validation)
    /\ kr' = kr + 1
    /\ UNCHANGED <<cvars, svars, rvars, now, run, work, kpc, kv, pg_pending,
                   pg_committed, first_run, success_count>>

\* n characters that are in no banned phrase.
Fill(n) == [i \in 1..n |-> "x"]

\* Titles and contents at the bounds of the length checks, and with a
\* banned phrase in them, in the case of the list and in capitals.
Shouted == <<"I"," ","B","E","L","I","E","V","E">>
QualityTitles ==
    {Fill(n) : n \in {0, min_title_len - 1, min_title_len, max_title_len,
                      max_title_len + 1}}
    \cup {Shouted, Fill(max_title_len) \o BAN_LIST[Len(BAN_LIST)]}
QualityContents ==
    {Fill(n) : n \in {0, min_content_len - 1, min_content_len,
                      max_content_len, max_content_len + 1}}
    \cup {Fill(min_content_len) \o BAN_LIST[k] : k \in 1..Len(BAN_LIST)}
    \cup {Shouted, Fill(max_content_len) \o Shouted}

StoredInsight(title, content) ==
    [id |-> <<1, "theology", 0>>, title |-> title, content |-> content]

\* One row of commentary_insights, selected by validate_chapter; the
\* ValidationResult is new.
InitQuality ==
    /\ verses = <<>> /\ dry_run = FALSE
    /\ pc = "verse" /\ vi = 1 /\ n_insights = 0 /\ ii = 1
    /\ cur_insight = NoneV /\ vres = NoResult /\ valid_count = 0
    /\ total_insights = 0 /\ total_issues = 0 /\ db_pending = {}
    /\ crossrefs = <<>> /\ selected = <<>> /\ rung = 0 /\ spc = "idle"
    /\ rpc = "idle" /\ attempt = 0 /\ outcomes = <<>> /\ sleeps = <<>>
    /\ last_error = NoneV /\ explanation = NoneV
    /\ now = 1 /\ run = 1 /\ kpc = "quality" /\ kv = 1 /\ kr = 1
    /\ pg_pending = {} /\ pg_committed = {} /\ first_run = NoneV
    /\ success_count = 0
    /\ validation = [errors |-> <<>>, warnings |-> <<>>, valid |-> TRUE]
    /\ \E title \in QualityTitles, content \in QualityContents :
          /\ work = <<StoredInsight(title, content)>>
          /\ db_committed = {StoredInsight(title, content)}

NextQuality == CheckQuality

SpecQuality == InitQuality /\ [][NextQuality]_vars

\* The texts the gate is to warn about.
HasBanned(text) ==
    \E k \in 1..Len(BAN_LIST) :
        \E i \in 0..(Len(text) - Len(BAN_LIST[k])) :
            \A j \in 1..Len(BAN_LIST[k]) :
                lower_char(text[i + j]) = lower_char(BAN_LIST[k][j])
ShouldWarn(insight) ==
    \/ HasBanned(insight.content)
    \/ HasBanned(insight.title)
    \/ Len(insight.title) < min_title_len
    \/ Len(insight.title) > max_title_len
    \/ Len(insight.content) < min_content_len
    \/ Len(insight.content) > max_content_len

\* C17: validate_content_quality adds warnings only, never an error, and
\* leaves the stored row as it is; it adds a warning (and returns False)
\* exactly when the content or the title holds a phrase of BAN_LIST, in
\* whatever case, or the title has fewer than min_title_len or more than
\* max_title_len characters, or the content fewer than min_content_len or
\* more than max_content_len.
C17_QualityGateWarnsOnly ==
    (kpc = "quality" /\ kr > 1) =>
        /\ validation.errors = <<>>
        /\ db_committed = {work[1]}
        /\ (validation.warnings # <<>>) <=> ShouldWarn(work[1])
        /\ validation.valid <=> ~ShouldWarn(work[1])

\* A title that shouts a banned phrase over a content of the least length:
\* one warning, the row still stored.
C17_Witness ==
    /\ kpc = "quality"
    /\ kr > 1
    /\ work[1].title = Shouted
    /\ work[1].content = Fill(min_content_len)
    /\ Len(validation.warnings) = 1
    /\ ~validation.valid
    /\ db_committed = {work[1]}

-----------------------------------------------------------------------------
(* validate_sources and validate_chapter (validate_insights.py:232-377):   *)
(* the audit of the stored rows.                                           *)

\* STRONGS_GREEK_RANGE[1] and STRONGS_HEBREW_RANGE[1] (lines 50-51).
strongs_greek_max == 5624
strongs_hebrew_max == 8674

\* result.add_error(insight_id, message) appends this.
Error(insight_id, message) == [insight_id |-> insight_id, message |-> message]

\* int(digits)
RECURSIVE int_of(_)
int_of(digits) ==
    IF digits = <<>> THEN 0
    ELSE 10 * int_of(SubSeq(digits, 1, Len(digits) - 1))
         + (CHOOSE d \in 0..9 : ToString(d) = digits[Len(digits)])

\* re.match(r"^([GH])(\d+)$", ref.upper()): $ also matches before a final
\* newline.
strongs_body(ref) ==
    IF ref # <<>> /\ ref[Len(ref)] = "\n" THEN SubSeq(ref, 1, Len(ref) - 1)
    ELSE ref
strongs_match(body) ==
    /\ Len(body) >= 2
    /\ lower_char(body[1]) \in {"g", "h"}
    /\ \A k \in 2..Len(body) : body[k] \in Digits

\* Lines 263-276 for one source of type strongs: an error for a reference
\* that is no Strong's number, a warning for a number out of range.
strongs_issues(insight_id, body) ==
    IF ~strongs_match(body)
    THEN [errors |-> <<Error(insight_id, "Invalid Strong's number format")>>,
          warnings |-> <<>>]
    ELSE IF int_of(Tail(body)) >= 1
            /\ int_of(Tail(body)) <= (IF lower_char(body[1]) = "g"
                                      THEN strongs_greek_max
                                      ELSE strongs_hebrew_max)
    THEN [errors |-> <<>>, warnings |-> <<>>]
    ELSE [errors |-> <<>>,
          warnings |-> <<Warning(insight_id, "Strong's number out of range",
                                 body)>>]

\* Lines 254-261 for one source of type crossReference: a warning unless
\* parse_reference parses the reference and verse_exists finds the verse
\* (source.resolves: what the two give for it).
crossref_issues(insight_id, source) ==
    [errors |-> <<>>,
     warnings |-> IF source.resolves THEN <<>>
                  ELSE <<Warning(insight_id, "Could not resolve cross-reference",
                                 source.reference)>>]

\* Lines 250-276 for one source.
source_issues(insight_id, source) ==
    IF source.type = "crossReference" THEN crossref_issues(insight_id, source)
    ELSE IF source.type = "strongs"
         THEN strongs_issues(insight_id, strongs_body(source.reference))
    ELSE [errors |-> <<>>, warnings |-> <<>>]

\* Lines 250-278: the loop over the sources from index k on; a source
\* that is no dict has no get, and the AttributeError is not caught.
RECURSIVE sources_from(_, _, _, _)
sources_from(insight_id, sources, k, result) ==
    IF k > Len(sources) THEN [result EXCEPT !.valid = TRUE]
    ELSE IF sources[k].t # "dict" THEN [result EXCEPT !.raised = TRUE]
    ELSE sources_from(insight_id, sources, k + 1,
             [result EXCEPT
                 !.errors = @ \o source_issues(insight_id, sources[k]).errors,
                 !.warnings = @ \o source_issues(insight_id, sources[k]).warnings])

\* Lines 232-279: the errors and warnings validate_sources adds and what it
\* returns, for the sources column as json.loads reads it.
validate_sources(insight) ==
    IF insight.sources.t = "invalid"
    THEN [raised |-> FALSE, valid |-> FALSE, warnings |-> <<>>,
          errors |-> <<Error(insight.id, "Invalid sources JSON")>>]
    ELSE IF insight.sources.t # "list"
    THEN [raised |-> FALSE, valid |-> FALSE, warnings |-> <<>>,
          errors |-> <<Error(insight.id, "Sources must be an array")>>]
    ELSE sources_from(insight.id, insight.sources.v, 1,
             [raised |-> FALSE, valid |-> FALSE, warnings |-> <<>>,
              errors |-> <<>>])

\* Lines 199-229: the one error validate_segment_locator adds when it
\* returns False.
locator_errors(insight, verse_text) ==
    IF validate_segment_locator(insight, verse_text) THEN <<>>
    ELSE <<Error(insight.id, "segment locator")>>

\* Lines 371-377: the three validations of a row whose verse was found.
run_validations(insight, verse_text, result) ==
    [errors |-> result.errors \o locator_errors(insight, verse_text)
                \o validate_sources(insight).errors,
     warnings |-> result.warnings \o validate_sources(insight).warnings
                  \o quality_warnings(insight),
     insights_checked |-> result.insights_checked + 1,
     insights_valid |->
         IF /\ validate_segment_locator(insight, verse_text)
            /\ validate_sources(insight).valid
            /\ quality_warnings(insight) = <<>>
         THEN result.insights_valid + 1 ELSE result.insights_valid]

\* Lines 356-377: one pass of the loop of validate_chapter, for the row at
\* index kr; get_verse_text gives None for a verse the Bible does not have.
AuditInsight ==
    /\ kpc = "audit"
    /\ kr <= Len(work)
    /\ IF work[kr].verse_start > Len(verses)
       THEN /\ validation' =
                  [validation EXCEPT
                      !.insights_checked = @ + 1,
                      !.errors = Append(@, Error(work[kr].id, "Verse not found"))]
            /\ kpc' = kpc
       ELSE IF validate_sources(work[kr]).raised
       THEN /\ validation' =
                  [validation EXCEPT
                      !.insights_checked = @ + 1,
                      !.errors = @ \o locator_errors(work[kr],
                                         verses[work[kr].verse_start].text)]
            /\ kpc' = "raised"
       ELSE /\ validation' = run_validations(work[kr],
                                 verses[work[kr].verse_start].text, validation)
            /\ kpc' = kpc
    /\ kr' = kr + 1
    /\ UNCHANGED <<cvars, svars, rvars, now, run, work, kv, pg_pending,
                   pg_committed, first_run, success_count>>

\* The sources columns of the rows audited.
Strongs(reference) ==
    [t |-> "dict", type |-> "strongs", reference |-> reference]
AuditSources ==
    {[t |-> "list", v |-> <<>>],
     [t |-> "list", v |-> <<Strongs(<<"G", "3", "0", "5", "6">>)>>],
     [t |-> "list", v |-> <<Strongs(<<"l", "o", "g", "o", "s">>)>>],
     [t |-> "list", v |-> <<Strongs(<<"h", "9", "9", "9", "9">>)>>],
     [t |-> "list", v |-> <<[t |-> "dict", type |-> "crossReference",
                            reference |-> GoodRef.v, resolves |-> TRUE],
                           [t |-> "dict", type |-> "crossReference",
                            reference |-> BadRef.v, resolves |-> FALSE]>>],
     [t |-> "list", v |-> <<[t |-> "str"]>>],
     [t |-> "dict"],
     [t |-> "invalid"]}

\* A stored row for the verse "A A.": its segment, title and sources.
AuditRow(verse_start, start, title, sources) ==
    [id |-> <<verse_start, "theology", 0>>,
     verse_start |-> verse_start,
     segment_text |-> Str(<<"A">>),
     segment_start_char |-> start,
     segment_end_char |-> start + 1,
     title |-> title,
     content |-> Fill(min_content_len),
     sources |-> sources]

\* Rows with a right and a wrong locator and each sources column; a row
\* with a title too short; a row of a verse the Bible does not have.
AuditRows ==
    {AuditRow(1, start, Fill(min_title_len), sources) :
        start \in {0, 1}, sources \in AuditSources}
    \cup {AuditRow(1, 0, <<>>, [t |-> "list", v |-> <<>>]),
          AuditRow(2, 0, Fill(min_title_len), [t |-> "list", v |-> <<>>])}

\* At most MaxInsights rows of the chapter, the index of each in its id; a
\* Bible of one verse; the ValidationResult is new.
InitAudit ==
    /\ verses = <<[verse |-> 1, text |-> <<"A", " ", "A", ".">>]>>
    /\ dry_run = FALSE
    /\ pc = "verse" /\ vi = 1 /\ n_insights = 0 /\ ii = 1
    /\ cur_insight = NoneV /\ vres = NoResult /\ valid_count = 0
    /\ total_insights = 0 /\ total_issues = 0 /\ db_pending = {}
    /\ crossrefs = <<>> /\ selected = <<>> /\ rung = 0 /\ spc = "idle"
    /\ rpc = "idle" /\ attempt = 0 /\ outcomes = <<>> /\ sleeps = <<>>
    /\ last_error = NoneV /\ explanation = NoneV
    /\ now = 1 /\ run = 1 /\ kpc = "audit" /\ kv = 1 /\ kr = 1
    /\ pg_pending = {} /\ pg_committed = {} /\ first_run = NoneV
    /\ success_count = 0
    /\ validation = [errors |-> <<>>, warnings |-> <<>>,
                     insights_checked |-> 0, insights_valid |-> 0]
    /\ \E n \in 0..MaxInsights : \E rows \in [1..n -> AuditRows] :
          /\ work = [k \in 1..n |->
                        [rows[k] EXCEPT !.id = <<rows[k].verse_start,
                                                 "theology", k - 1>>]]
          /\ db_committed = {work[k] : k \in 1..n}

NextAudit == AuditInsight

SpecAudit == InitAudit /\ [][NextAudit]_vars

\* The rows audited so far against which an error was recorded.
WithError ==
    {k \in 1..(kr - 1) :
        \E e \in 1..Len(validation.errors) :
            validation.errors[e].insight_id = work[k].id}

\* C30: in validate_chapter a row is counted in insights_valid only if the
\* locator and the source checks recorded no error against it: after any
\* number of rows audited, insights_valid is at most insights_checked minus
\* the number of rows with at least one error.
C30_ValidHasNoError ==
    kpc \in {"audit", "raised"} =>
        validation.insights_valid
            <= validation.insights_checked - Cardinality(WithError)

====
